---- MODULE Spec2Model ----
(***************************************************************************)
(* A model of brickadia-rs: the bit/byte stream primitives of src/ext,     *)
(* the section framing and section order of SaveReader, and SaveWriter.    *)
(*                                                                         *)
(* u32 and i32 values are sets of bit positions (bit i set <=> i in the    *)
(* set; an i32 is its two's complement image), so that every operation     *)
(* keeps the 32-bit width of the source.                                   *)
(***************************************************************************)
EXTENDS Integers, Sequences, FiniteSets, TLC

VARIABLES
    \* ---- codec harness: one primitive applied to one input ----
    kind,       \* which primitive is exercised
    arg,        \* the input drawn for it
    tail,       \* what follows the emitted bits/bytes in the stream
    phase,      \* "input" | "written" | "read"
    wr,         \* what the writer returned and emitted
    rd,         \* what the reader returned and how far it read
    \* ---- a SaveReader over a byte source and its caller ----
    file,       \* the bytes of the source
    reader,     \* the SaveReader: version, game_version, the flags, pos
    held,       \* the Header1 and Header2 the caller holds for read_bricks
    call,       \* the last call made on the reader
    result,     \* what it returned
    before,     \* the reader as it was before that call
    section,    \* the next unconsumed section, before and after that call
    preview_done    \* read_preview or skip_preview has returned Ok

codecVars == <<kind, arg, tail, phase, wr, rd>>
readerVars == <<file, reader, held, call, result, before, section, preview_done>>
vars == <<kind, arg, tail, phase, wr, rd,
          file, reader, held, call, result, before, section, preview_done>>

----------------------------------------------------------------------------
(* 32-bit words *)

U32Bits == 32
Bit == 0 .. (U32Bits - 1)

Pow2(n) == 2 ^ n

\* the word of a small natural number (below 2^31)
U(n) == {i \in 0 .. 30 : (n \div Pow2(i)) % 2 = 1}

Shl(x, k) == {i + k : i \in {j \in x : j + k < U32Bits}}
Shr(x, k) == {i - k : i \in {j \in x : j >= k}}
BitAnd(x, y) == x \cap y
BitOr(x, y) == x \cup y
BitNot(x) == Bit \ x

RECURSIVE LtFrom(_, _, _)
\* a < b decided by the highest bit, at or below i, in which they differ
LtFrom(a, b, i) ==
    IF i < 0 THEN FALSE
    ELSE IF (i \in a) = (i \in b) THEN LtFrom(a, b, i - 1)
    ELSE i \in b

\* a < b as unsigned words
Lt(a, b) == LtFrom(a, b, U32Bits - 1)

RECURSIVE AddFrom(_, _, _, _)
\* bits i.. of a + b given the carry c into bit i; bit U32Bits is the carry out
AddFrom(a, b, i, c) ==
    IF i = U32Bits THEN (IF c THEN {U32Bits} ELSE {})
    ELSE LET x == i \in a
             y == i \in b
         IN (IF (x # y) # c THEN {i} ELSE {})
            \cup AddFrom(a, b, i + 1, (x /\ y) \/ (x /\ c) \/ (y /\ c))

\* a + b modulo 2^32, and whether the true sum does not fit
AddU32(a, b) == AddFrom(a, b, 0, FALSE) \cap Bit
AddOverflows(a, b) == U32Bits \in AddFrom(a, b, 0, FALSE)

\* -x in two's complement (wrapping_neg)
NegI32(x) == AddU32(BitNot(x), {0})
IsNegI32(x) == (U32Bits - 1) \in x

\* i32::unsigned_abs
unsigned_abs(x) == IF IsNegI32(x) THEN NegI32(x) ELSE x

----------------------------------------------------------------------------
(* results *)

Ok(v, p) == [st |-> "Ok", v |-> v, p |-> p]
Err(e, p) == [st |-> e, v |-> {}, p |-> p]
Emit(bits) == [st |-> "Ok", out |-> bits]
Fail(e) == [st |-> e, out |-> <<>>]

----------------------------------------------------------------------------
(* BitWriteExt: variable-width and packed integers *)

write_bit(b) == <<IF b THEN 1 ELSE 0>>

RECURSIVE write_uint_loop(_, _, _, _, _)
write_uint_loop(value, max, new_value, mask, acc) ==
    IF AddOverflows(new_value, mask) THEN Fail("ArithmeticOverflow")
    ELSE IF Lt(AddU32(new_value, mask), max) /\ mask # {}
    THEN write_uint_loop(value, max,
             IF BitAnd(value, mask) # {} THEN BitOr(new_value, mask) ELSE new_value,
             Shl(mask, 1),
             acc \o write_bit(BitAnd(value, mask) # {}))
    ELSE Emit(acc)

\* a write_uint that does not compare the value with max
write_uint_unchecked(value, max) ==
    IF ~(Lt({0}, max)) THEN Fail("Panic")
    ELSE write_uint_loop(value, max, {}, {0}, <<>>)

write_uint(value, max) ==
    IF ~(Lt({0}, max)) THEN Fail("Panic")            \* assert!(max >= 2)
    ELSE IF ~Lt(value, max) THEN Fail("InvalidInput")
    ELSE write_uint_loop(value, max, {}, {0}, <<>>)

\* a write_bits that walks the source byte from its high end
write_bits_msb_first(src, len) ==
    [bit \in 1 .. len |-> IF BitAnd(src, Shl({0}, (len - bit) % 8)) # {} THEN 1 ELSE 0]

\* write_bits(&[src], len) for a single source byte
write_bits(src, len) ==
    [bit \in 1 .. len |-> IF BitAnd(src, Shl({0}, (bit - 1) % 8)) # {} THEN 1 ELSE 0]

RECURSIVE write_uint_packed_loop(_, _)
write_uint_packed_loop(value, acc) ==
    LET src == BitAnd(value, 0 .. 6)
        next == Shr(value, 7)
        out == acc \o write_bit(next # {}) \o write_bits(src, 7)
    IN IF next = {} THEN Emit(out) ELSE write_uint_packed_loop(next, out)

write_uint_packed(value) == write_uint_packed_loop(value, <<>>)

\* a write_int_packed whose shift is done in 31 bits
write_int_packed_narrow(value) ==
    write_uint_packed(BitOr(Shl(unsigned_abs(value), 1) \ {U32Bits - 1},
                            IF ~IsNegI32(value) THEN {0} ELSE {}))

write_int_packed(value) ==
    write_uint_packed(BitOr(Shl(unsigned_abs(value), 1),
                            IF ~IsNegI32(value) THEN {0} ELSE {}))

----------------------------------------------------------------------------
(* BitReadExt: variable-width and packed integers.  A stream is a sequence *)
(* of bits; p is the 1-based index of the next bit to read.               *)

RECURSIVE read_uint_loop(_, _, _, _, _)
read_uint_loop(bits, p, max, value, mask) ==
    IF AddOverflows(value, mask) THEN Err("ArithmeticOverflow", p)
    ELSE IF Lt(AddU32(value, mask), max) /\ mask # {}
    THEN IF p > Len(bits) THEN Err("IoError", p)
         ELSE read_uint_loop(bits, p + 1, max,
                  IF bits[p] = 1 THEN BitOr(value, mask) ELSE value,
                  Shl(mask, 1))
    ELSE Ok(value, p)

\* a read_uint whose loop runs while value + mask <= max
read_uint_inclusive(bits, p, max) == read_uint_loop(bits, p, AddU32(max, {0}), {}, {0})

read_uint(bits, p, max) == read_uint_loop(bits, p, max, {}, {0})

PackedGroups == 5
PackedPayloadBits == 7

RECURSIVE read_uint_packed_loop(_, _, _, _)
read_uint_packed_loop(bits, p, i, value) ==
    IF i >= PackedGroups THEN Ok(value, p)
    ELSE IF p + PackedPayloadBits > Len(bits) THEN Err("IoError", p)
    ELSE LET has_next == bits[p] = 1
             part == {shift \in 0 .. (PackedPayloadBits - 1) : bits[p + 1 + shift] = 1}
             v == BitOr(value, Shl(part, PackedPayloadBits * i))
         IN IF ~has_next THEN Ok(v, p + 1 + PackedPayloadBits)
            ELSE read_uint_packed_loop(bits, p + 1 + PackedPayloadBits, i + 1, v)

read_uint_packed(bits, p) == read_uint_packed_loop(bits, p, 0, {})

read_int_packed(bits, p) ==
    LET r == read_uint_packed(bits, p)
    IN IF r.st # "Ok" THEN r
       ELSE Ok(IF BitAnd(r.v, {0}) # {} THEN Shr(r.v, 1) ELSE NegI32(Shr(r.v, 1)), r.p)

----------------------------------------------------------------------------
(* Strings.  A string is a sequence of Unicode scalar values; a byte is a   *)
(* number in 0 .. 255; an i32 length is an integer.                        *)

RECURSIVE Flatten(_)
Flatten(ss) == IF ss = <<>> THEN <<>> ELSE Head(ss) \o Flatten(Tail(ss))

\* char::encode_utf8
Utf8Char(c) ==
    IF c < 128 THEN <<c>>
    ELSE IF c < 2048 THEN <<192 + (c \div 64), 128 + (c % 64)>>
    ELSE IF c < 65536 THEN <<224 + (c \div 4096), 128 + ((c \div 64) % 64), 128 + (c % 64)>>
    ELSE <<240 + (c \div 262144), 128 + ((c \div 4096) % 64),
           128 + ((c \div 64) % 64), 128 + (c % 64)>>

\* char::encode_utf16
Utf16Char(c) ==
    IF c < 65536 THEN <<c>>
    ELSE <<55296 + ((c - 65536) \div 1024), 56320 + ((c - 65536) % 1024)>>

\* str::as_bytes, str::len, str::is_ascii, str::encode_utf16
as_bytes(string) == Flatten([i \in 1 .. Len(string) |-> Utf8Char(string[i])])
len(string) == Len(as_bytes(string))
is_ascii(string) == \A i \in 1 .. Len(string) : string[i] < 128
encode_utf16(string) == Flatten([i \in 1 .. Len(string) |-> Utf16Char(string[i])])

IsCont(b) == b >= 128 /\ b < 192

RECURSIVE from_utf8_loop(_, _, _)
from_utf8_loop(bytes, i, acc) ==
    IF i > Len(bytes) THEN [ok |-> TRUE, s |-> acc]
    ELSE LET b == bytes[i]
             n == IF b < 128 THEN 1
                  ELSE IF b >= 194 /\ b < 224 THEN 2
                  ELSE IF b >= 224 /\ b < 240 THEN 3
                  ELSE IF b >= 240 /\ b < 245 THEN 4
                  ELSE 0
         IN IF n = 0 \/ i + n - 1 > Len(bytes) THEN [ok |-> FALSE, s |-> <<>>]
            ELSE IF \E k \in 1 .. (n - 1) : ~IsCont(bytes[i + k]) THEN [ok |-> FALSE, s |-> <<>>]
            ELSE LET c == IF n = 1 THEN b
                          ELSE IF n = 2 THEN (b - 192) * 64 + (bytes[i + 1] - 128)
                          ELSE IF n = 3 THEN (b - 224) * 4096 + (bytes[i + 1] - 128) * 64
                                             + (bytes[i + 2] - 128)
                          ELSE (b - 240) * 262144 + (bytes[i + 1] - 128) * 4096
                               + (bytes[i + 2] - 128) * 64 + (bytes[i + 3] - 128)
                     bad == \/ n = 3 /\ (c < 2048 \/ (c >= 55296 /\ c < 57344))
                            \/ n = 4 /\ (c < 65536 \/ c > 1114111)
                 IN IF bad THEN [ok |-> FALSE, s |-> <<>>]
                    ELSE from_utf8_loop(bytes, i + n, Append(acc, c))

\* String::from_utf8
from_utf8(bytes) == from_utf8_loop(bytes, 1, <<>>)

RECURSIVE from_utf16_loop(_, _, _)
from_utf16_loop(units, i, acc) ==
    IF i > Len(units) THEN [ok |-> TRUE, s |-> acc]
    ELSE LET u == units[i]
         IN IF u < 55296 \/ u >= 57344 THEN from_utf16_loop(units, i + 1, Append(acc, u))
            ELSE IF u < 56320 /\ i < Len(units) /\ units[i + 1] >= 56320 /\ units[i + 1] < 57344
            THEN from_utf16_loop(units, i + 2,
                     Append(acc, 65536 + (u - 55296) * 1024 + (units[i + 1] - 56320)))
            ELSE [ok |-> FALSE, s |-> <<>>]

\* String::from_utf16
from_utf16(units) == from_utf16_loop(units, 1, <<>>)

MinI32 == (-2147483647) - 1

\* byteorder: an i32 and a u16 as little-endian bytes
ByteOf(m, i) == (m \div (256 ^ i)) % 256
I32LE(n) == IF n >= 0 THEN [i \in 1 .. 4 |-> ByteOf(n, i - 1)]
            ELSE [i \in 1 .. 4 |-> 255 - ByteOf((-n) - 1, i - 1)]
U16LE(u) == <<u % 256, u \div 256>>

I32Of(b) ==
    IF b[4] < 128 THEN b[1] + 256 * b[2] + 65536 * b[3] + 16777216 * b[4]
    ELSE (-((255 - b[1]) + 256 * (255 - b[2]) + 65536 * (255 - b[3])
            + 16777216 * (255 - b[4]))) - 1

\* ReadBytesExt::read_i32::<LittleEndian> on a byte buffer, from index p
read_i32(buf, p) ==
    IF p + 3 > Len(buf) THEN [st |-> "IoError", v |-> 0, p |-> p]
    ELSE [st |-> "Ok", v |-> I32Of(SubSeq(buf, p, p + 3)), p |-> p + 4]

----------------------------------------------------------------------------
(* WriteExt / ReadExt: strings on a byte stream *)

WriteExt_write_string(string) ==
    IF string = <<>> THEN Emit(I32LE(0))
    ELSE IF is_ascii(string)
    THEN Emit(I32LE(len(string) + 1) \o as_bytes(string) \o <<0>>)
    ELSE Emit(I32LE(-len(string))
              \o Flatten([i \in 1 .. Len(encode_utf16(string)) |-> U16LE(encode_utf16(string)[i])])
              \o <<0>>)

SErr(e, p) == [st |-> e, v |-> <<>>, p |-> p]

ReadExt_read_string(buf, p0) ==
    LET l == read_i32(buf, p0)
        size == l.v
        p == l.p
    IN IF l.st # "Ok" THEN SErr("IoError", p0)
       ELSE IF size >= 0
       THEN LET n == IF size - 1 > 0 THEN size - 1 ELSE 0
                q == p + n + (IF size > 0 THEN 1 ELSE 0)
                d == from_utf8(SubSeq(buf, p, p + n - 1))
            IN IF q - 1 > Len(buf) THEN SErr("IoError", p)
               ELSE IF ~d.ok THEN SErr("InvalidData", q)
               ELSE [st |-> "Ok", v |-> d.s, p |-> q]
       ELSE IF size = MinI32 THEN SErr("ArithmeticOverflow", p)
       ELSE LET sz == -size
            IN IF sz % 2 = 1 THEN SErr("InvalidData", p)
               ELSE LET n == sz \div 2
                        q == p + 2 * n
                        d == from_utf16([i \in 1 .. n |->
                                 buf[p + 2 * (i - 1)] + 256 * buf[p + 2 * (i - 1) + 1]])
                    IN IF q - 1 > Len(buf) THEN SErr("IoError", p)
                       ELSE IF ~d.ok THEN SErr("InvalidData", q)
                       ELSE [st |-> "Ok", v |-> d.s, p |-> q]

----------------------------------------------------------------------------
(* BitWriteExt / BitReadExt: strings on a bit stream *)

\* BitWrite::write_bytes (little-endian bit order: each byte LSB first)
write_bytes(bytes) ==
    [k \in 1 .. 8 * Len(bytes) |-> (bytes[((k - 1) \div 8) + 1] \div Pow2((k - 1) % 8)) % 2]

\* BitRead::read_bytes: n bytes from bit index p (the caller checks the length)
read_bytes(bits, p, n) ==
    [i \in 1 .. n |-> bits[p + 8 * (i - 1)] + 2 * bits[p + 8 * (i - 1) + 1]
                      + 4 * bits[p + 8 * (i - 1) + 2] + 8 * bits[p + 8 * (i - 1) + 3]
                      + 16 * bits[p + 8 * (i - 1) + 4] + 32 * bits[p + 8 * (i - 1) + 5]
                      + 64 * bits[p + 8 * (i - 1) + 6] + 128 * bits[p + 8 * (i - 1) + 7]]

BitWriteExt_write_i32(i) == write_bytes(I32LE(i))
BitWriteExt_write_u16(i) == write_bytes(U16LE(i))

BitWriteExt_write_string(string) ==
    IF string = <<>> THEN Emit(BitWriteExt_write_i32(0))
    ELSE IF is_ascii(string)
    THEN Emit(BitWriteExt_write_i32(len(string) + 1) \o write_bytes(as_bytes(string))
              \o write_bytes(<<0>>))
    ELSE Emit(BitWriteExt_write_i32(-len(string))
              \o Flatten([i \in 1 .. Len(encode_utf16(string)) |->
                              BitWriteExt_write_u16(encode_utf16(string)[i])])
              \o write_bytes(<<0>>))

read_i32_le(bits, p) ==
    IF p + 31 > Len(bits) THEN [st |-> "IoError", v |-> 0, p |-> p]
    ELSE [st |-> "Ok", v |-> I32Of(read_bytes(bits, p, 4)), p |-> p + 32]

BitReadExt_read_string(bits, p0) ==
    LET l == read_i32_le(bits, p0)
        size == l.v
        p == l.p
    IN IF l.st # "Ok" THEN SErr("IoError", p0)
       ELSE IF size >= 0
       THEN LET n == IF size - 1 > 0 THEN size - 1 ELSE 0
                q == p + 8 * (n + (IF size > 0 THEN 1 ELSE 0))
            IN IF q - 1 > Len(bits) THEN SErr("IoError", p)
               ELSE LET d == from_utf8(read_bytes(bits, p, n))
                    IN IF ~d.ok THEN SErr("InvalidData", q)
                       ELSE [st |-> "Ok", v |-> d.s, p |-> q]
       ELSE IF size < -1073741823 THEN SErr("ArithmeticOverflow", p)
       ELSE LET sz == (-size) * 2
            IN IF sz % 2 = 1 THEN SErr("InvalidData", p)
               ELSE LET n == sz \div 2
                        q == p + 16 * n
                    IN IF q - 1 > Len(bits) THEN SErr("IoError", p)
                       ELSE LET b == read_bytes(bits, p, 2 * n)
                                d == from_utf16([i \in 1 .. n |-> b[2 * i - 1] + 256 * b[2 * i]])
                            IN IF ~d.ok THEN SErr("InvalidData", q)
                               ELSE [st |-> "Ok", v |-> d.s, p |-> q]

----------------------------------------------------------------------------
(* Compressed-section framing.                                             *)
(*                                                                         *)
(* zlib is a library outside the repository.  It stands here as a          *)
(* run-length coder with a one-byte header: a lossless coder that never    *)
(* emits an empty stream and whose output is shorter than some payloads    *)
(* and as long as or longer than others, which is all the framing reads    *)
(* of it.                                                                  *)

ZlibHeader == 120
MaxRun == 255

RECURSIVE RunLength(_, _)
\* the length of the run of bytes[i] starting at i
RunLength(bytes, i) ==
    IF i < Len(bytes) /\ bytes[i + 1] = bytes[i] THEN 1 + RunLength(bytes, i + 1) ELSE 1

RECURSIVE DeflateFrom(_, _)
DeflateFrom(bytes, i) ==
    IF i > Len(bytes) THEN <<>>
    ELSE LET n == IF RunLength(bytes, i) > MaxRun THEN MaxRun ELSE RunLength(bytes, i)
         IN <<n, bytes[i]>> \o DeflateFrom(bytes, i + n)

\* ZlibEncoder::new(vec, Compression::default()).finish()
Deflate(bytes) == <<ZlibHeader>> \o DeflateFrom(bytes, 1)

RECURSIVE InflateFrom(_, _)
InflateFrom(z, i) ==
    IF i + 1 > Len(z) THEN <<>>
    ELSE [k \in 1 .. z[i] |-> z[i + 1]] \o InflateFrom(z, i + 2)

\* ZlibDecoder::new(compressed).read_exact(bytes) for n = bytes.len()
Inflate(z, n) ==
    IF Len(z) = 0 \/ z[1] # ZlibHeader \/ Len(z) % 2 = 0
    THEN [ok |-> FALSE, bytes |-> <<>>]
    ELSE LET d == InflateFrom(z, 2)
         IN IF Len(d) < n THEN [ok |-> FALSE, bytes |-> <<>>]
            ELSE [ok |-> TRUE, bytes |-> SubSeq(d, 1, n)]

\* a write_compressed that also keeps a compressed form of equal length
write_compressed_or_equal(vec, should_compress) ==
    IF ~should_compress THEN I32LE(Len(vec)) \o I32LE(0) \o vec
    ELSE LET compressed == Deflate(vec)
         IN I32LE(Len(vec))
            \o (IF Len(compressed) <= Len(vec)
                THEN I32LE(Len(compressed)) \o compressed
                ELSE I32LE(0) \o vec)

\* a write_compressed that never keeps the compressed form
write_compressed_raw(vec, should_compress) == I32LE(Len(vec)) \o I32LE(0) \o vec

\* write_compressed: the bytes it appends to the writer
write_compressed(vec, should_compress) ==
    IF ~should_compress THEN I32LE(Len(vec)) \o I32LE(0) \o vec
    ELSE LET compressed == Deflate(vec)
         IN I32LE(Len(vec))
            \o (IF Len(compressed) < Len(vec)
                THEN I32LE(Len(compressed)) \o compressed
                ELSE I32LE(0) \o vec)

CErr(e, p) == [st |-> e, bytes |-> <<>>, len |-> 0, p |-> p]

\* read_compressed on the byte source buf from index p: the decompressed
\* bytes (the cursor), uncompressed_size, and the source index after it
read_compressed(buf, p) ==
    LET u == read_i32(buf, p)
        c == read_i32(buf, u.p)
        uncompressed_size == u.v
        compressed_size == c.v
    IN IF u.st # "Ok" THEN CErr("IoError", p)
       ELSE IF c.st # "Ok" THEN CErr("IoError", u.p)
       ELSE IF uncompressed_size < 0 \/ compressed_size < 0
               \/ compressed_size > uncompressed_size
       THEN CErr("InvalidCompression", c.p)
       ELSE IF compressed_size = 0
       THEN IF c.p + uncompressed_size - 1 > Len(buf) THEN CErr("IoError", c.p)
            ELSE [st |-> "Ok", bytes |-> SubSeq(buf, c.p, c.p + uncompressed_size - 1),
                  len |-> uncompressed_size, p |-> c.p + uncompressed_size]
       ELSE IF c.p + compressed_size - 1 > Len(buf) THEN CErr("IoError", c.p)
            ELSE LET d == Inflate(SubSeq(buf, c.p, c.p + compressed_size - 1),
                                  uncompressed_size)
                 IN IF ~d.ok THEN CErr("IoError", c.p + compressed_size)
                    ELSE [st |-> "Ok", bytes |-> d.bytes, len |-> uncompressed_size,
                          p |-> c.p + compressed_size]

Min(a, b) == IF a < b THEN a ELSE b

\* a skip_compressed that also refuses compressed_size = uncompressed_size
skip_compressed_strict(buf, p) ==
    LET u == read_i32(buf, p)
        c == read_i32(buf, u.p)
        uncompressed_size == u.v
        compressed_size == c.v
    IN IF u.st # "Ok" THEN CErr("IoError", p)
       ELSE IF c.st # "Ok" THEN CErr("IoError", u.p)
       ELSE IF uncompressed_size < 0 \/ compressed_size < 0
               \/ compressed_size >= uncompressed_size
       THEN CErr("InvalidCompression", c.p)
       ELSE [st |-> "Ok", bytes |-> <<>>, len |-> 0,
             p |-> Min(Len(buf) + 1,
                       c.p + (IF compressed_size = 0 THEN uncompressed_size
                              ELSE compressed_size))]

\* a skip_compressed that steps over uncompressed_size bytes whatever the
\* frame holds
skip_compressed_expanded(buf, p) ==
    LET u == read_i32(buf, p)
        c == read_i32(buf, u.p)
        uncompressed_size == u.v
        compressed_size == c.v
    IN IF u.st # "Ok" THEN CErr("IoError", p)
       ELSE IF c.st # "Ok" THEN CErr("IoError", u.p)
       ELSE IF uncompressed_size < 0 \/ compressed_size < 0
               \/ compressed_size > uncompressed_size
       THEN CErr("InvalidCompression", c.p)
       ELSE [st |-> "Ok", bytes |-> <<>>, len |-> 0,
             p |-> Min(Len(buf) + 1, c.p + uncompressed_size)]

\* skip_compressed: io::copy of reader.take(n) stops quietly at the end of
\* the source
skip_compressed(buf, p) ==
    LET u == read_i32(buf, p)
        c == read_i32(buf, u.p)
        uncompressed_size == u.v
        compressed_size == c.v
    IN IF u.st # "Ok" THEN CErr("IoError", p)
       ELSE IF c.st # "Ok" THEN CErr("IoError", u.p)
       ELSE IF uncompressed_size < 0 \/ compressed_size < 0
               \/ compressed_size > uncompressed_size
       THEN CErr("InvalidCompression", c.p)
       ELSE [st |-> "Ok", bytes |-> <<>>, len |-> 0,
             p |-> Min(Len(buf) + 1,
                       c.p + (IF compressed_size = 0 THEN uncompressed_size
                              ELSE compressed_size))]

----------------------------------------------------------------------------
(* The data model (save.rs).  u32 brick fields and i32 positions are words; *)
(* lengths, counts and i32 header fields are integers; a HashMap is a       *)
(* function; Option<User> and the enums carry a tag field.                  *)

SAVE_VERSION == 10
MAGIC_BYTES == <<66, 82, 83>>

NilUuid == [i \in 1 .. 16 |-> 0]
Str_Unknown == <<85, 110, 107, 110, 111, 119, 110>>
Str_Class == <<67, 108, 97, 115, 115>>
Str_Object == <<79, 98, 106, 101, 99, 116>>
Str_String == <<83, 116, 114, 105, 110, 103>>
Str_Boolean == <<66, 111, 111, 108, 101, 97, 110>>
Str_Float == <<70, 108, 111, 97, 116>>
Str_Color == <<67, 111, 108, 111, 114>>
Str_Byte == <<66, 121, 116, 101>>
Str_Rotator == <<82, 111, 116, 97, 116, 111, 114>>

NoUser == [some |-> FALSE]
SomeUser(u) == [some |-> TRUE, name |-> u.name, id |-> u.id]

\* Preview::type_byte
type_byte(preview) ==
    IF preview.type = "None" THEN 0
    ELSE IF preview.type = "PNG" THEN 1
    ELSE IF preview.type = "JPEG" THEN 2
    ELSE preview.tag

\* a from_bytes_rgb that takes the three bytes in the order b, g, r
from_bytes_rgb_reversed(slice) == [r |-> slice[3], g |-> slice[2], b |-> slice[1], a |-> 255]

\* Color::from_bytes_bgra, Color::from_bytes_rgb
from_bytes_bgra(slice) == [r |-> slice[3], g |-> slice[2], b |-> slice[1], a |-> slice[4]]
from_bytes_rgb(slice) == [r |-> slice[1], g |-> slice[2], b |-> slice[3], a |-> 255]

\* Collision::for_all
for_all(state) == [player |-> state, weapon |-> state, interaction |-> state, tool |-> state]

Max(a, b) == IF a > b THEN a ELSE b

----------------------------------------------------------------------------
(* SaveWriter::write *)

\* the first failure of a sequence of writer results, else all their output
Chain(rs) ==
    IF \E i \in 1 .. Len(rs) : rs[i].st # "Ok"
    THEN Fail(rs[CHOOSE i \in 1 .. Len(rs) :
                     rs[i].st # "Ok" /\ \A j \in 1 .. (i - 1) : rs[j].st = "Ok"].st)
    ELSE Emit(Flatten([i \in 1 .. Len(rs) |-> rs[i].out]))

\* BitWrite::byte_align: zero bits up to the next byte boundary
AlignBits(bits) == bits \o [k \in 1 .. ((8 - (Len(bits) % 8)) % 8) |-> 0]

\* the bytes a BitWriter has flushed to its Vec<u8> (whole bytes only)
BitsToBytes(bits) == read_bytes(bits, 1, Len(bits) \div 8)

\* WriteExt::write_uuid: four big-endian u32 read from the UUID, each written
\* little-endian
write_uuid(uuid) == [i \in 1 .. 16 |-> uuid[4 * ((i - 1) \div 4) + (4 - ((i - 1) % 4))]]

\* WriteExt::write_color_bgra
write_color_bgra(color) == <<color.b, color.g, color.r, color.a>>

\* WriteExt::write_array: the length, then the elements. written[i] is what
\* the operation wrote for element i (no element writer used here can fail)
write_array(written) == I32LE(Len(written)) \o Flatten(written)

StringBytes(string) == WriteExt_write_string(string).out

\* a header 1 that ends with the stored brick_count
Header1Payload_stored_count(data) ==
    LET h == data.header1
        host == IF h.host.some THEN h.host ELSE h.author
    IN StringBytes(h.map) \o StringBytes(h.author.name) \o StringBytes(h.description)
       \o write_uuid(h.author.id)
       \o StringBytes(host.name) \o write_uuid(host.id)
       \o h.save_time
       \o I32LE(h.brick_count)

\* write header 1: the payload handed to write_compressed
Header1Payload(data) ==
    LET h == data.header1
        host == IF h.host.some THEN h.host ELSE h.author
    IN StringBytes(h.map) \o StringBytes(h.author.name) \o StringBytes(h.description)
       \o write_uuid(h.author.id)
       \o StringBytes(host.name) \o write_uuid(host.id)
       \o h.save_time
       \o I32LE(Len(data.bricks))

WriteOwner(brick_owner) ==
    write_uuid(brick_owner.id) \o StringBytes(brick_owner.name) \o I32LE(brick_owner.bricks)

\* write header 2
Header2Payload(data) ==
    LET h == data.header2
    IN write_array([i \in 1 .. Len(h.mods) |-> StringBytes(h.mods[i])])
       \o write_array([i \in 1 .. Len(h.brick_assets) |-> StringBytes(h.brick_assets[i])])
       \o write_array([i \in 1 .. Len(h.colors) |-> write_color_bgra(h.colors[i])])
       \o write_array([i \in 1 .. Len(h.materials) |-> StringBytes(h.materials[i])])
       \o write_array([i \in 1 .. Len(h.brick_owners) |-> WriteOwner(h.brick_owners[i])])
       \o write_array([i \in 1 .. Len(h.physical_materials) |-> StringBytes(h.physical_materials[i])])

\* write preview
PreviewBytes(data) ==
    LET preview_type == type_byte(data.preview)
    IN <<preview_type>>
       \o (IF preview_type = 0 THEN <<>>
           ELSE I32LE(Len(data.preview.bytes)) \o data.preview.bytes)

\* one iteration of the brick loop, after byte_align
WriteBrick(brick, data) ==
    LET asset_name_count == Max(Len(data.header2.brick_assets), 2)
        material_count == Max(Len(data.header2.materials), 2)
        physical_material_count == Max(Len(data.header2.physical_materials), 2)
        color_count == Max(Len(data.header2.colors), 2)
        orientation == U(brick.direction * 4 + brick.rotation)
    IN Chain(<<
        write_uint(brick.asset_name_index, U(asset_name_count)),
        IF brick.size.procedural
        THEN Chain(<<Emit(write_bit(TRUE)), write_uint_packed(brick.size.x),
                     write_uint_packed(brick.size.y), write_uint_packed(brick.size.z)>>)
        ELSE Emit(write_bit(FALSE)),
        write_int_packed(brick.position[1]),
        write_int_packed(brick.position[2]),
        write_int_packed(brick.position[3]),
        write_uint(orientation, U(24)),
        Emit(write_bit(brick.collision.player) \o write_bit(brick.collision.weapon)
             \o write_bit(brick.collision.interaction) \o write_bit(brick.collision.tool)),
        Emit(write_bit(brick.visibility)),
        write_uint(brick.material_index, U(material_count)),
        write_uint(brick.physical_index, U(physical_material_count)),
        write_uint(brick.material_intensity, U(11)),
        IF brick.color.unique
        THEN Emit(write_bit(TRUE)
                  \o write_bytes(<<brick.color.color.r, brick.color.color.g,
                                   brick.color.color.b>>))
        ELSE Chain(<<Emit(write_bit(FALSE)), write_uint(brick.color.index, U(color_count))>>),
        write_uint_packed(brick.owner_index)
       >>)

\* the bricks payload: every brick byte-aligned, and a final byte_align
BricksPayload(data) ==
    LET r == Chain([i \in 1 .. Len(data.bricks) |->
                       LET b == WriteBrick(data.bricks[i], data)
                       IN IF b.st = "Ok" THEN Emit(AlignBits(b.out)) ELSE b])
    IN IF r.st = "Ok" THEN Emit(BitsToBytes(r.out)) ELSE r

\* a component_bricks[name] that lists the bricks carrying name last first
RECURSIVE BrickList_reversed(_, _, _)
BrickList_reversed(bricks, name, i) ==
    IF i > Len(bricks) THEN <<>>
    ELSE BrickList_reversed(bricks, name, i + 1)
         \o (IF name \in DOMAIN bricks[i].components THEN <<i - 1>> ELSE <<>>)

\* component_bricks[name]: the 0-based indices of the bricks carrying name,
\* in brick order
RECURSIVE BrickList(_, _, _)
BrickList(bricks, name, i) ==
    IF i > Len(bricks) THEN <<>>
    ELSE (IF name \in DOMAIN bricks[i].components THEN <<i - 1>> ELSE <<>>)
         \o BrickList(bricks, name, i + 1)

\* BitWriteExt::write_unreal
write_unreal(unreal) ==
    IF unreal.t = "Boolean" THEN Emit(BitWriteExt_write_i32(IF unreal.v THEN 1 ELSE 0))
    ELSE IF unreal.t = "Byte" THEN Emit(write_bytes(<<unreal.v>>))
    ELSE IF unreal.t \in {"Class", "String"} THEN BitWriteExt_write_string(unreal.v)
    ELSE IF unreal.t = "Color"
    THEN Emit(write_bytes(<<unreal.v.b, unreal.v.g, unreal.v.r, unreal.v.a>>))
    ELSE Emit(write_bytes(unreal.v))          \* Float: 4 bytes; Rotator: 3 x 4 bytes

\* a writer that leaves out a value the brick does not supply
write_property_or_skip(props, p) ==
    IF p \in DOMAIN props THEN write_unreal(props[p]) ELSE Emit(<<>>)

\* bits.write_unreal(props.remove(p).ok_or(WriteError::ComponentBrickError)?)
write_property(props, p) ==
    IF p \in DOMAIN props THEN write_unreal(props[p]) ELSE Fail("ComponentBrickError")

\* one iteration of the component loop: name on the byte stream, the rest
\* on a bit writer over the same Vec, then byte_align.  properties is the
\* iteration order of component.properties.
WriteComponent(data, name, properties) ==
    LET component == data.components[name]
        brick_count == Len(data.bricks)
        brick_list == BrickList(data.bricks, name, 1)
        indices == IF brick_list # <<>>
                   THEN Chain(<<Emit(BitWriteExt_write_i32(Len(brick_list)))>>
                              \o [k \in 1 .. Len(brick_list) |->
                                     write_uint(U(brick_list[k]), U(Max(brick_count, 2)))])
                   ELSE Emit(BitWriteExt_write_i32(0))
        props == Chain(<<Emit(BitWriteExt_write_i32(Len(properties)))>>
                       \o [k \in 1 .. Len(properties) |->
                              Chain(<<BitWriteExt_write_string(properties[k]),
                                      BitWriteExt_write_string(
                                          component.properties[properties[k]])>>)])
        values == Chain([k \in 1 .. Len(brick_list) |->
                     Chain([q \in 1 .. Len(properties) |->
                         write_property(data.bricks[brick_list[k] + 1].components[name],
                                        properties[q])])])
        bits == Chain(<<Emit(BitWriteExt_write_i32(component.version)), indices, props, values>>)
    IN IF bits.st # "Ok" THEN bits
       ELSE Emit(StringBytes(name) \o BitsToBytes(AlignBits(bits.out)))

\* the components payload; names is the iteration order of data.components
\* and properties[name] that of its property map
ComponentsPayload(data, names, properties) ==
    Chain(<<Emit(I32LE(Len(names)))>>
          \o [k \in 1 .. Len(names) |-> WriteComponent(data, names[k], properties[names[k]])])

\* SaveWriter::write: its result and the bytes the sink holds afterwards
SaveWriter_write(data, compressed, names, properties) ==
    LET head == MAGIC_BYTES \o U16LE(SAVE_VERSION) \o I32LE(data.game_version)
               \o write_compressed(Header1Payload(data), compressed)
               \o write_compressed(Header2Payload(data), compressed)
               \o PreviewBytes(data)
        bricks == BricksPayload(data)
        comps == ComponentsPayload(data, names, properties)
    IN IF bricks.st # "Ok" THEN [st |-> "IoError", out |-> head]
       ELSE IF comps.st # "Ok"
       THEN [st |-> IF comps.st = "ComponentBrickError" THEN comps.st ELSE "IoError",
             out |-> head \o write_compressed(bricks.out, compressed)]
       ELSE [st |-> "Ok",
             out |-> head \o write_compressed(bricks.out, compressed)
                          \o write_compressed(comps.out, compressed)]

----------------------------------------------------------------------------
(* SaveReader: parsing the decompressed sections.  A read returns          *)
(* [st, v, p]: the status, the value and the cursor index after it.  A     *)
(* section is read field by field into s = [st, p, v]: the status so far,  *)
(* the cursor, and what has been read; the first failure stops the reads   *)
(* (the ? operator).                                                       *)

\* "BMC_Hologram", "BMC_Plastic", "BMC_Glow", "BMC_Metallic", "BMC_Glass"
DEFAULT_MATERIALS ==
    <<<<66, 77, 67, 95, 72, 111, 108, 111, 103, 114, 97, 109>>,
      <<66, 77, 67, 95, 80, 108, 97, 115, 116, 105, 99>>,
      <<66, 77, 67, 95, 71, 108, 111, 119>>,
      <<66, 77, 67, 95, 77, 101, 116, 97, 108, 108, 105, 99>>,
      <<66, 77, 67, 95, 71, 108, 97, 115, 115>>>>

PErr(e, p) == [st |-> e, v |-> <<>>, p |-> p]
POk(v, p) == [st |-> "Ok", v |-> v, p |-> p]

\* an io::Error of any kind is ReadError::IoError to the caller
ReadErrorOf(st) == IF st = "InvalidData" THEN "IoError" ELSE st

Start(p) == [st |-> "Ok", p |-> p, v |-> [x \in {} |-> {}]]
StartVec(p) == [st |-> "Ok", p |-> p, v |-> <<>>]

\* HashMap::insert
insert(map, key, value) ==
    [x \in DOMAIN map \cup {key} |-> IF x = key THEN value ELSE map[x]]

\* field f has been read with result r
Put(s, f, r) ==
    IF r.st # "Ok" THEN [s EXCEPT !.st = r.st, !.p = r.p]
    ELSE [s EXCEPT !.p = r.p, !.v = insert(s.v, f, r.v)]

\* Vec::push of the element read with result r
Push(s, r) ==
    IF r.st # "Ok" THEN [s EXCEPT !.st = r.st, !.p = r.p]
    ELSE [s EXCEPT !.p = r.p, !.v = Append(s.v, r.v)]

\* Read::read_exact of n bytes from a cursor
read_exact(buf, p, n) ==
    IF p + n - 1 > Len(buf) THEN PErr("IoError", p) ELSE POk(SubSeq(buf, p, p + n - 1), p + n)

read_u8(buf, p) == IF p > Len(buf) THEN PErr("IoError", p) ELSE POk(buf[p], p + 1)

\* ReadExt::read_uuid: four little-endian u32, each laid out big-endian
read_uuid(buf, p) ==
    IF p + 15 > Len(buf) THEN PErr("IoError", p)
    ELSE POk([i \in 1 .. 16 |-> buf[p - 1 + 4 * ((i - 1) \div 4) + (4 - ((i - 1) % 4))]], p + 16)

\* one brick owner of header 2: id, name, and from version 8 its bricks
OwnerFields == <<"id", "name", "bricks">>

OwnerField(f, buf, p, version) ==
    IF f = "id" THEN read_uuid(buf, p)
    ELSE IF f = "name" THEN ReadExt_read_string(buf, p)
    ELSE IF version >= 8 THEN read_i32(buf, p)
    ELSE POk(0, p)

RECURSIVE ReadOwnerFields(_, _, _, _)
ReadOwnerFields(buf, version, k, s) ==
    IF k > Len(OwnerFields) \/ s.st # "Ok" THEN s
    ELSE ReadOwnerFields(buf, version, k + 1,
             Put(s, OwnerFields[k], OwnerField(OwnerFields[k], buf, s.p, version)))

OwnerOf(s) ==
    IF s.st # "Ok" THEN PErr(s.st, s.p)
    ELSE POk([name |-> s.v.name, id |-> s.v.id, bricks |-> s.v.bricks], s.p)

\* the closure reading a color of header 2
ColorOf(b) == IF b.st # "Ok" THEN b ELSE POk(from_bytes_bgra(b.v), b.p)

\* one element of a header array: a string, a BGRA color or a brick owner
read_item(buf, p, what, version) ==
    IF what = "string" THEN ReadExt_read_string(buf, p)
    ELSE IF what = "color" THEN ColorOf(read_exact(buf, p, 4))
    ELSE OwnerOf(ReadOwnerFields(buf, version, 1, Start(p)))

RECURSIVE read_items(_, _, _, _, _)
read_items(buf, n, what, version, s) ==
    IF n <= 0 \/ s.st # "Ok" THEN s
    ELSE read_items(buf, n - 1, what, version, Push(s, read_item(buf, s.p, what, version)))

\* Vec::with_capacity(len as usize) overflows the capacity for a negative
\* len; then the loop over 0 .. len
with_capacity(buf, p, l, what, version) ==
    IF l.st # "Ok" THEN PErr(l.st, p)
    ELSE IF l.v < 0 THEN PErr("Panic", l.p)
    ELSE read_items(buf, l.v, what, version, StartVec(l.p))

\* ReadExt::read_array
read_array(buf, p, what, version) == with_capacity(buf, p, read_i32(buf, p), what, version)

\* the fields of header 1, in the order read_header1 reads them
Header1Fields ==
    <<"map", "author_name", "description", "author_uuid", "host_name", "host_id",
      "save_time", "brick_count">>

Header1Field(f, buf, p, version) ==
    IF f \in {"map", "author_name", "description"} THEN ReadExt_read_string(buf, p)
    ELSE IF f = "author_uuid" THEN read_uuid(buf, p)
    ELSE IF f = "host_name"
    THEN (IF version >= 8 THEN ReadExt_read_string(buf, p) ELSE POk(<<>>, p))
    ELSE IF f = "host_id" THEN (IF version >= 8 THEN read_uuid(buf, p) ELSE POk(<<>>, p))
    ELSE IF f = "save_time"
    THEN (IF version >= 4 THEN read_exact(buf, p, 8) ELSE POk([i \in 1 .. 8 |-> 0], p))
    ELSE read_i32(buf, p)

RECURSIVE ReadHeader1Fields(_, _, _, _)
ReadHeader1Fields(buf, version, k, s) ==
    IF k > Len(Header1Fields) \/ s.st # "Ok" THEN s
    ELSE ReadHeader1Fields(buf, version, k + 1,
             Put(s, Header1Fields[k], Header1Field(Header1Fields[k], buf, s.p, version)))

Header1Of(s, version) ==
    IF s.st # "Ok" THEN PErr(s.st, s.p)
    ELSE IF s.v.brick_count < 0 THEN PErr("InvalidDataHeader1", s.p)
    ELSE POk([map |-> s.v.map,
              author |-> [name |-> s.v.author_name, id |-> s.v.author_uuid],
              description |-> s.v.description,
              host |-> IF version >= 8
                       THEN SomeUser([name |-> s.v.host_name, id |-> s.v.host_id])
                       ELSE NoUser,
              save_time |-> s.v.save_time,
              brick_count |-> s.v.brick_count],
             s.p)

\* the body of read_header1 after read_compressed
ParseHeader1(buf, version) == Header1Of(ReadHeader1Fields(buf, version, 1, Start(1)), version)

\* the fields of header 2, in the order read_header2 reads them
Header2Fields ==
    <<"mods", "brick_assets", "colors", "materials", "brick_owners", "physical_materials">>

Header2Field(f, buf, p, version) ==
    IF f \in {"mods", "brick_assets"} THEN read_array(buf, p, "string", version)
    ELSE IF f = "colors" THEN read_array(buf, p, "color", version)
    ELSE IF f = "materials"
    THEN (IF version >= 2 THEN read_array(buf, p, "string", version)
          ELSE POk(DEFAULT_MATERIALS, p))
    ELSE IF f = "brick_owners"
    THEN (IF version >= 3 THEN read_array(buf, p, "owner", version) ELSE POk(<<>>, p))
    ELSE (IF version >= 9 THEN read_array(buf, p, "string", version) ELSE POk(<<>>, p))

RECURSIVE ReadHeader2Fields(_, _, _, _)
ReadHeader2Fields(buf, version, k, s) ==
    IF k > Len(Header2Fields) \/ s.st # "Ok" THEN s
    ELSE ReadHeader2Fields(buf, version, k + 1,
             Put(s, Header2Fields[k], Header2Field(Header2Fields[k], buf, s.p, version)))

Header2Of(s) ==
    IF s.st # "Ok" THEN PErr(s.st, s.p)
    ELSE POk([mods |-> s.v.mods, brick_assets |-> s.v.brick_assets,
              colors |-> s.v.colors, materials |-> s.v.materials,
              brick_owners |-> s.v.brick_owners,
              physical_materials |-> s.v.physical_materials],
             s.p)

\* the body of read_header2 after read_compressed
ParseHeader2(buf, version) == Header2Of(ReadHeader2Fields(buf, version, 1, Start(1)))

\* Preview::from_reader: the mode byte, and for a mode other than 0 the
\* length and the bytes; vec![0u8; len as usize] cannot be allocated for a
\* negative len
PreviewFields == <<"mode", "len", "bytes">>

PreviewField(f, buf, s) ==
    IF f = "mode" THEN read_u8(buf, s.p)
    ELSE IF s.v.mode = 0 THEN POk(<<>>, s.p)
    ELSE IF f = "len" THEN read_i32(buf, s.p)
    ELSE IF s.v.len < 0 THEN PErr("Panic", s.p)
    ELSE read_exact(buf, s.p, s.v.len)

RECURSIVE ReadPreviewFields(_, _, _)
ReadPreviewFields(buf, k, s) ==
    IF k > Len(PreviewFields) \/ s.st # "Ok" THEN s
    ELSE ReadPreviewFields(buf, k + 1,
             Put(s, PreviewFields[k], PreviewField(PreviewFields[k], buf, s)))

PreviewOf(s) ==
    IF s.st # "Ok" THEN PErr(ReadErrorOf(s.st), s.p)
    ELSE IF s.v.mode = 0 THEN POk([type |-> "None"], s.p)
    ELSE IF s.v.mode = 1 THEN POk([type |-> "PNG", bytes |-> s.v.bytes], s.p)
    ELSE IF s.v.mode = 2 THEN POk([type |-> "JPEG", bytes |-> s.v.bytes], s.p)
    ELSE POk([type |-> "Unknown", tag |-> s.v.mode, bytes |-> s.v.bytes], s.p)

from_reader(buf, p) == PreviewOf(ReadPreviewFields(buf, 1, Start(p)))

----------------------------------------------------------------------------
(* read_bricks: the brick loop over the bit reader.  A bit index is        *)
(* 1-based; the cursor under the bit reader has handed out                 *)
(* (p - 1) \div 8 bytes when the reader is aligned at bit p.               *)

read_bit(bits, p) == IF p > Len(bits) THEN Err("IoError", p) ELSE Ok(bits[p] = 1, p + 1)

\* BitRead::read_bytes of n bytes at any bit offset
read_bits_bytes(bits, p, n) ==
    IF p + 8 * n - 1 > Len(bits) THEN Err("IoError", p) ELSE Ok(read_bytes(bits, p, n), p + 8 * n)

\* BitRead::byte_align on the reader
AlignPos(p) == p + ((8 - ((p - 1) % 8)) % 8)

\* a u32 below 2^31 as a number
RECURSIVE as_usize(_)
as_usize(x) ==
    IF x = {} THEN 0 ELSE LET i == CHOOSE j \in x : TRUE IN Pow2(i) + as_usize(x \ {i})

\* the reads of one iteration of the brick loop, in order; the size, the
\* position and the collision are read component by component
BrickFields ==
    <<"asset_name_index", "procedural", "size_x", "size_y", "size_z",
      "position_x", "position_y", "position_z", "orientation",
      "collision_player", "collision_weapon", "collision_interaction", "collision_tool",
      "visibility", "has_material", "material_index", "physical_index",
      "material_intensity", "unique", "color", "owner_index">>

UniqueOf(b, version) ==
    IF b.st # "Ok" THEN b
    ELSE Ok([unique |-> TRUE,
             color |-> IF version >= 9 THEN from_bytes_rgb(b.v) ELSE from_bytes_bgra(b.v)],
            b.p)

IndexOf(i) == IF i.st # "Ok" THEN i ELSE Ok([unique |-> FALSE, index |-> i.v], i.p)

BrickField(f, bits, s, version, header2) ==
    IF f = "asset_name_index"
    THEN read_uint(bits, s.p, U(Max(Len(header2.brick_assets), 2)))
    ELSE IF f = "procedural" THEN read_bit(bits, s.p)
    ELSE IF f \in {"size_x", "size_y", "size_z"}
    THEN (IF s.v.procedural THEN read_uint_packed(bits, s.p) ELSE Ok({}, s.p))
    ELSE IF f \in {"position_x", "position_y", "position_z"} THEN read_int_packed(bits, s.p)
    ELSE IF f = "orientation" THEN read_uint(bits, s.p, U(24))
    ELSE IF f = "collision_player" THEN read_bit(bits, s.p)
    ELSE IF f \in {"collision_weapon", "collision_interaction", "collision_tool"}
    THEN (IF version >= 10 THEN read_bit(bits, s.p) ELSE Ok(s.v.collision_player, s.p))
    ELSE IF f = "visibility" THEN read_bit(bits, s.p)
    ELSE IF f = "has_material"
    THEN (IF version >= 8 THEN Ok(FALSE, s.p) ELSE read_bit(bits, s.p))
    ELSE IF f = "material_index"
    THEN (IF version >= 8 THEN read_uint(bits, s.p, U(Max(Len(header2.materials), 2)))
          ELSE IF s.v.has_material THEN read_uint_packed(bits, s.p)
          ELSE Ok({0}, s.p))
    ELSE IF f = "physical_index"
    THEN (IF version >= 9
          THEN read_uint(bits, s.p, U(Max(Len(header2.physical_materials), 2)))
          ELSE Ok({}, s.p))
    ELSE IF f = "material_intensity"
    THEN (IF version >= 9 THEN read_uint(bits, s.p, U(11)) ELSE Ok(U(5), s.p))
    ELSE IF f = "unique" THEN read_bit(bits, s.p)
    ELSE IF f = "color"
    THEN (IF s.v.unique
          THEN UniqueOf(read_bits_bytes(bits, s.p, IF version >= 9 THEN 3 ELSE 4), version)
          ELSE IndexOf(read_uint(bits, s.p, U(Len(header2.colors)))))
    ELSE (IF version >= 3 THEN read_uint_packed(bits, s.p) ELSE Ok({}, s.p))

RECURSIVE ReadBrickFields(_, _, _, _, _)
ReadBrickFields(bits, version, header2, k, s) ==
    IF k > Len(BrickFields) \/ s.st # "Ok" THEN s
    ELSE ReadBrickFields(bits, version, header2, k + 1,
             Put(s, BrickFields[k], BrickField(BrickFields[k], bits, s, version, header2)))

BrickOf(s) ==
    IF s.st # "Ok" THEN Err(s.st, s.p)
    ELSE Ok([asset_name_index |-> s.v.asset_name_index,
             size |-> IF s.v.procedural
                      THEN [procedural |-> TRUE, x |-> s.v.size_x, y |-> s.v.size_y,
                            z |-> s.v.size_z]
                      ELSE [procedural |-> FALSE],
             position |-> <<s.v.position_x, s.v.position_y, s.v.position_z>>,
             direction |-> (as_usize(Shr(s.v.orientation, 2))) % 6,
             rotation |-> as_usize(BitAnd(s.v.orientation, {0, 1})),
             collision |-> [player |-> s.v.collision_player,
                            weapon |-> s.v.collision_weapon,
                            interaction |-> s.v.collision_interaction,
                            tool |-> s.v.collision_tool],
             visibility |-> s.v.visibility,
             material_index |-> s.v.material_index,
             physical_index |-> s.v.physical_index,
             material_intensity |-> s.v.material_intensity,
             color |-> s.v.color,
             owner_index |-> s.v.owner_index,
             components |-> [x \in {} |-> {}]],
            s.p)

\* one iteration of the brick loop, after the break test
ReadBrick(bits, p, version, header2) ==
    BrickOf(ReadBrickFields(bits, version, header2, 1, Start(p)))

\* a brick loop that stops at brick_count bricks only
RECURSIVE ReadBrickLoop_count_only(_, _, _, _, _, _)
ReadBrickLoop_count_only(bits, section_len, brick_count, version, header2, s) ==
    IF s.st # "Ok" THEN s
    ELSE IF Len(s.v) >= brick_count
    THEN [s EXCEPT !.p = AlignPos(s.p)]
    ELSE ReadBrickLoop_count_only(bits, section_len, brick_count, version, header2,
                                  Push(s, ReadBrick(bits, AlignPos(s.p), version, header2)))

\* loop over each brick: align, then stop at brick_count bricks or at the
\* end of the section; s.v is the Vec of bricks
RECURSIVE ReadBrickLoop(_, _, _, _, _, _)
ReadBrickLoop(bits, section_len, brick_count, version, header2, s) ==
    IF s.st # "Ok" THEN s
    ELSE IF Len(s.v) >= brick_count \/ (AlignPos(s.p) - 1) \div 8 >= section_len
    THEN [s EXCEPT !.p = AlignPos(s.p)]
    ELSE ReadBrickLoop(bits, section_len, brick_count, version, header2,
                       Push(s, ReadBrick(bits, AlignPos(s.p), version, header2)))

----------------------------------------------------------------------------
(* read_bricks: the components section *)

\* a value read as UnrealType t
Tagged(t, r) == IF r.st # "Ok" THEN r ELSE POk([t |-> t, v |-> r.v], r.p)
NonZero(r) == IF r.st # "Ok" THEN r ELSE POk(r.v # 0, r.p)
ColorBgra(r) == IF r.st # "Ok" THEN r ELSE POk(from_bytes_bgra(r.v), r.p)
FirstByte(r) == IF r.st # "Ok" THEN r ELSE POk(r.v[1], r.p)

\* BitReadExt::read_unreal_type
read_unreal_type(bits, p, t) ==
    IF t \in {Str_Class, Str_Object} THEN Tagged("Class", BitReadExt_read_string(bits, p))
    ELSE IF t = Str_String THEN Tagged("String", BitReadExt_read_string(bits, p))
    ELSE IF t = Str_Boolean THEN Tagged("Boolean", NonZero(read_i32_le(bits, p)))
    ELSE IF t = Str_Float THEN Tagged("Float", read_bits_bytes(bits, p, 4))
    ELSE IF t = Str_Color THEN Tagged("Color", ColorBgra(read_bits_bytes(bits, p, 4)))
    ELSE IF t = Str_Byte THEN Tagged("Byte", FirstByte(read_bits_bytes(bits, p, 1)))
    ELSE IF t = Str_Rotator THEN Tagged("Rotator", read_bits_bytes(bits, p, 12))
    ELSE PErr("InvalidData", p)

\* bits.read_array(|r| r.read_uint(brick_count)) after its length
RECURSIVE read_indices(_, _, _, _)
read_indices(bits, n, brick_count, s) ==
    IF n <= 0 \/ s.st # "Ok" THEN s
    ELSE read_indices(bits, n - 1, brick_count, Push(s, read_uint(bits, s.p, U(brick_count))))

\* the closure |r| Ok((r.read_string()?, r.read_string()?))
PairFields == <<1, 2>>

RECURSIVE ReadPairFields(_, _, _)
ReadPairFields(bits, k, s) ==
    IF k > Len(PairFields) \/ s.st # "Ok" THEN s
    ELSE ReadPairFields(bits, k + 1, Push(s, BitReadExt_read_string(bits, s.p)))

read_pair(bits, p) == ReadPairFields(bits, 1, StartVec(p))

\* bits.read_array of that closure, after its length
RECURSIVE read_pairs(_, _, _)
read_pairs(bits, n, s) ==
    IF n <= 0 \/ s.st # "Ok" THEN s
    ELSE read_pairs(bits, n - 1, Push(s, read_pair(bits, s.p)))

\* the property table of one brick; s.v is props
RECURSIVE read_props(_, _, _, _)
read_props(bits, properties, q, s) ==
    IF q > Len(properties) \/ s.st # "Ok" THEN s
    ELSE read_props(bits, properties, q + 1,
                    Put(s, properties[q][1], read_unreal_type(bits, s.p, properties[q][2])))

\* bricks[i].components.insert(name, props): bricks[i] is out of bounds
\* for an index past the bricks read
InsertProps(s, i, name, props) ==
    IF props.st # "Ok" THEN [s EXCEPT !.st = props.st, !.p = props.p]
    ELSE IF (\E b \in i : b > 20) \/ as_usize(i) >= Len(s.v)
    THEN [s EXCEPT !.st = "Panic", !.p = props.p]
    ELSE [s EXCEPT !.p = props.p,
                   !.v[as_usize(i) + 1].components = insert(@, name, props.v)]

\* components for each brick; s.v is bricks
RECURSIVE read_values(_, _, _, _, _, _)
read_values(bits, brick_indices, k, properties, name, s) ==
    IF k > Len(brick_indices) \/ s.st # "Ok" THEN s
    ELSE read_values(bits, brick_indices, k + 1, properties, name,
             InsertProps(s, brick_indices[k], name,
                         read_props(bits, properties, 1, Start(s.p))))

\* properties.into_iter().collect() into a HashMap
RECURSIVE collect(_, _, _)
collect(properties, q, map) ==
    IF q > Len(properties) THEN map
    ELSE collect(properties, q + 1, insert(map, properties[q][1], properties[q][2]))

\* the length of a bit read_array, then its elements
Counted(l) == IF l.st # "Ok" THEN l ELSE IF l.v < 0 THEN PErr("Panic", l.p) ELSE l

\* the reads of one iteration of the component loop: three on the byte
\* cursor, the rest on a bit reader over bit_bytes
ComponentFields == <<"name", "bit_bytes_len", "bit_bytes">>
ComponentBitFields ==
    <<"version", "brick_indices_len", "brick_indices", "properties_len", "properties",
      "bricks">>

ComponentField(f, buf, s) ==
    IF f = "name" THEN ReadExt_read_string(buf, s.p)
    ELSE IF f = "bit_bytes_len" THEN Counted(read_i32(buf, s.p))
    ELSE read_exact(buf, s.p, s.v.bit_bytes_len)

RECURSIVE ReadComponentFields(_, _, _)
ReadComponentFields(buf, k, s) ==
    IF k > Len(ComponentFields) \/ s.st # "Ok" THEN s
    ELSE ReadComponentFields(buf, k + 1,
             Put(s, ComponentFields[k], ComponentField(ComponentFields[k], buf, s)))

ComponentBitField(f, bits, s, name, bricks) ==
    IF f = "version" THEN read_i32_le(bits, s.p)
    ELSE IF f \in {"brick_indices_len", "properties_len"} THEN Counted(read_i32_le(bits, s.p))
    ELSE IF f = "brick_indices"
    THEN read_indices(bits, s.v.brick_indices_len, Max(Len(bricks), 2), StartVec(s.p))
    ELSE IF f = "properties" THEN read_pairs(bits, s.v.properties_len, StartVec(s.p))
    ELSE read_values(bits, s.v.brick_indices, 1, s.v.properties, name,
                     [st |-> "Ok", p |-> s.p, v |-> bricks])

RECURSIVE ReadComponentBitFields(_, _, _, _, _)
ReadComponentBitFields(bits, name, bricks, k, s) ==
    IF k > Len(ComponentBitFields) \/ s.st # "Ok" THEN s
    ELSE ReadComponentBitFields(bits, name, bricks, k + 1,
             Put(s, ComponentBitFields[k],
                 ComponentBitField(ComponentBitFields[k], bits, s, name, bricks)))

\* the bricks and the components after one iteration: head is what was read
\* from the byte cursor, s what was read from the bits
ComponentOf(head, s, components) ==
    IF s.st # "Ok" THEN PErr(s.st, head.p)
    ELSE POk([bricks |-> s.v.bricks,
              components |->
                  insert(components, head.v.name,
                         [version |-> s.v.version, brick_indices |-> s.v.brick_indices,
                          properties |-> collect(s.v.properties, 1, [x \in {} |-> {}])])],
             head.p)

ReadComponentBits(head, bricks, components) ==
    IF head.st # "Ok" THEN PErr(head.st, head.p)
    ELSE ComponentOf(head,
                     ReadComponentBitFields(write_bytes(head.v.bit_bytes), head.v.name,
                                            bricks, 1, Start(1)),
                     components)

\* one iteration of the component loop; the value is the bricks and the
\* components so far
ReadComponent(buf, p, bricks, components) ==
    ReadComponentBits(ReadComponentFields(buf, 1, Start(p)), bricks, components)

\* for _ in 0 .. len; s.v is [bricks, components]
RECURSIVE ReadComponentLoop(_, _, _)
ReadComponentLoop(buf, n, s) ==
    IF n <= 0 \/ s.st # "Ok" THEN s
    ELSE ReadComponentLoop(buf, n - 1, ReadComponent(buf, s.p, s.v.bricks, s.v.components))

ComponentsFrom(buf, l, bricks) ==
    IF l.st # "Ok" THEN PErr(l.st, l.p)
    ELSE ReadComponentLoop(buf, l.v,
             POk([bricks |-> bricks, components |-> [x \in {} |-> {}]], l.p))

\* the components payload after read_compressed
ParseComponents(buf, bricks) == ComponentsFrom(buf, read_i32(buf, 1), bricks)

----------------------------------------------------------------------------
(* SaveReader.  The reader is [version, game_version, header1_read,        *)
(* header2_read, preview_read, pos]: pos is the index of the next byte of  *)
(* the source.  A call returns [st, v, r]: its status, its value and the   *)
(* reader it leaves.                                                       *)

Ret(st, v, r) == [st |-> st, v |-> v, r |-> r]

\* a SaveReader::new that starts every reader with the preview unread
SaveReader_new_preview_unread(buf) ==
    LET magic == read_exact(buf, 1, 3)
        version == read_exact(buf, 4, 2)
        v == version.v[1] + 256 * version.v[2]
        game_version == IF v >= 8 THEN read_i32(buf, 6) ELSE POk(0, 6)
    IN IF magic.st # "Ok" THEN Ret("IoError", <<>>, <<>>)
       ELSE IF magic.v # MAGIC_BYTES THEN Ret("BadHeader", <<>>, <<>>)
       ELSE IF version.st # "Ok" THEN Ret("IoError", <<>>, <<>>)
       ELSE IF game_version.st # "Ok" THEN Ret("IoError", <<>>, <<>>)
       ELSE Ret("Ok", <<>>,
                [version |-> v, game_version |-> game_version.v,
                 header1_read |-> FALSE, header2_read |-> FALSE,
                 preview_read |-> FALSE, pos |-> game_version.p])

\* SaveReader::new; r is meaningful only when st = "Ok"
SaveReader_new(buf) ==
    LET magic == read_exact(buf, 1, 3)
        version == read_exact(buf, 4, 2)
        v == version.v[1] + 256 * version.v[2]
        game_version == IF v >= 8 THEN read_i32(buf, 6) ELSE POk(0, 6)
    IN IF magic.st # "Ok" THEN Ret("IoError", <<>>, <<>>)
       ELSE IF magic.v # MAGIC_BYTES THEN Ret("BadHeader", <<>>, <<>>)
       ELSE IF version.st # "Ok" THEN Ret("IoError", <<>>, <<>>)
       ELSE IF game_version.st # "Ok" THEN Ret("IoError", <<>>, <<>>)
       ELSE Ret("Ok", <<>>,
                [version |-> v, game_version |-> game_version.v,
                 header1_read |-> FALSE, header2_read |-> FALSE,
                 preview_read |-> v < 8, pos |-> game_version.p])

\* what a call returns after read_compressed returned c and the section
\* parsed as h; done is the reader with the flag of the section set
Section(r, c, h, done) ==
    IF c.st # "Ok" THEN Ret(c.st, <<>>, [r EXCEPT !.pos = c.p])
    ELSE IF h.st # "Ok" THEN Ret(ReadErrorOf(h.st), <<>>, [r EXCEPT !.pos = c.p])
    ELSE Ret("Ok", h.v, [done EXCEPT !.pos = c.p])

\* what a call returns after skip_compressed returned c
Skipped(r, c, done) ==
    IF c.st # "Ok" THEN Ret(c.st, <<>>, [r EXCEPT !.pos = c.p])
    ELSE Ret("Ok", <<>>, [done EXCEPT !.pos = c.p])

skip_header1(r, buf) ==
    Skipped(r, skip_compressed(buf, r.pos), [r EXCEPT !.header1_read = TRUE])

Header1Section(r, c) ==
    Section(r, c, ParseHeader1(c.bytes, r.version), [r EXCEPT !.header1_read = TRUE])

read_header1(r, buf) == Header1Section(r, read_compressed(buf, r.pos))

skip_header2(r, buf) ==
    Skipped(r, skip_compressed(buf, r.pos), [r EXCEPT !.header2_read = TRUE])

Header2Section(r, c) ==
    Section(r, c, ParseHeader2(c.bytes, r.version), [r EXCEPT !.header2_read = TRUE])

\* a read_header2 that looks at header1_read only after read_compressed
Header2SectionThenCheck(r, c) ==
    IF c.st = "Ok" /\ ~r.header1_read
    THEN Ret("BadSectionReadOrder", <<>>, [r EXCEPT !.pos = c.p])
    ELSE Header2Section(r, c)

read_header2_late_check(r, buf) == Header2SectionThenCheck(r, read_compressed(buf, r.pos))

read_header2(r, buf) ==
    IF ~r.header1_read THEN Ret("BadSectionReadOrder", <<>>, r)
    ELSE Header2Section(r, read_compressed(buf, r.pos))

PreviewRead(r, preview) ==
    IF preview.st # "Ok" THEN Ret(preview.st, <<>>, [r EXCEPT !.pos = preview.p])
    ELSE Ret("Ok", preview.v, [r EXCEPT !.pos = preview.p, !.preview_read = TRUE])

read_preview(r, buf) ==
    IF ~r.header2_read THEN Ret("BadSectionReadOrder", <<>>, r)
    ELSE IF r.version < 8 THEN Ret("Ok", [type |-> "None"], r)
    ELSE PreviewRead(r, from_reader(buf, r.pos))

\* skip_preview after read_u8 returned mode, with l the i32 that follows:
\* io::copy of reader.take(len as u64) stops quietly at the end of the
\* source, and a negative len is a count past any source
PreviewSkipped(r, buf, mode, l) ==
    IF mode.st # "Ok" THEN Ret("IoError", <<>>, r)
    ELSE IF mode.v = 0 THEN Ret("Ok", <<>>, [r EXCEPT !.pos = mode.p, !.preview_read = TRUE])
    ELSE IF l.st # "Ok" THEN Ret("IoError", <<>>, [r EXCEPT !.pos = mode.p])
    ELSE Ret("Ok", <<>>,
             [r EXCEPT !.pos = IF l.v < 0 THEN Len(buf) + 1
                                ELSE Min(Len(buf) + 1, l.p + l.v),
                       !.preview_read = TRUE])

skip_preview(r, buf) ==
    IF ~r.header2_read THEN Ret("BadSectionReadOrder", <<>>, r)
    ELSE IF r.version < 8 THEN Ret("Ok", <<>>, r)
    ELSE PreviewSkipped(r, buf, read_u8(buf, r.pos), read_i32(buf, r.pos + 1))

\* a read_bricks that does not look at preview_read
read_bricks_check_header2_only(r) == ~r.header2_read

\* the section-order test of read_bricks
read_bricks_check(r) == ~r.preview_read \/ ~r.header2_read

\* the components section, for the bricks read
ComponentsSection(r, bricks, cc) == Section(r, cc, ParseComponents(cc.bytes, bricks), r)

\* read_bricks after the brick loop ended as bricks
BricksRead(r, buf, c, bricks) ==
    IF bricks.st # "Ok" THEN Ret(ReadErrorOf(bricks.st), <<>>, [r EXCEPT !.pos = c.p])
    ELSE IF r.version < 8
    THEN Ret("Ok", [bricks |-> bricks.v, components |-> [x \in {} |-> {}]],
             [r EXCEPT !.pos = c.p])
    ELSE ComponentsSection(r, bricks.v, read_compressed(buf, c.p))

\* read_bricks after read_compressed returned c
BricksSection(r, buf, header1, header2, c) ==
    IF c.st # "Ok" THEN Ret(c.st, <<>>, [r EXCEPT !.pos = c.p])
    ELSE BricksRead(r, buf, c,
                    ReadBrickLoop(write_bytes(c.bytes), c.len, header1.brick_count,
                                  r.version, header2, StartVec(1)))

read_bricks(r, buf, header1, header2) ==
    IF read_bricks_check(r) THEN Ret("BadSectionReadOrder", <<>>, r)
    ELSE BricksSection(r, buf, header1, header2, read_compressed(buf, r.pos))

\* read_all and read_all_skip_preview make four calls in a row and stop at
\* the first that fails: s is [st, r, v], the status so far, the reader
\* and the values returned so far by call
AllCalls(skip) ==
    <<"read_header1", "read_header2", IF skip THEN "skip_preview" ELSE "read_preview",
      "read_bricks">>

StartCalls(r) == [st |-> "Ok", r |-> r, v |-> [x \in {} |-> {}]]

CallOf(c, s, buf) ==
    IF c = "read_header1" THEN read_header1(s.r, buf)
    ELSE IF c = "read_header2" THEN read_header2(s.r, buf)
    ELSE IF c = "read_preview" THEN read_preview(s.r, buf)
    ELSE IF c = "skip_preview" THEN skip_preview(s.r, buf)
    ELSE read_bricks(s.r, buf, s.v.read_header1, s.v.read_header2)

Returned(s, c, x) ==
    IF x.st # "Ok" THEN [s EXCEPT !.st = x.st, !.r = x.r]
    ELSE [s EXCEPT !.r = x.r, !.v = insert(s.v, c, x.v)]

RECURSIVE MakeCalls(_, _, _, _)
MakeCalls(calls, buf, k, s) ==
    IF k > Len(calls) \/ s.st # "Ok" THEN s
    ELSE MakeCalls(calls, buf, k + 1, Returned(s, calls[k], CallOf(calls[k], s, buf)))

SaveDataOf(r, s, preview) ==
    IF s.st # "Ok" THEN Ret(s.st, <<>>, s.r)
    ELSE Ret("Ok",
             [version |-> r.version, game_version |-> r.game_version,
              header1 |-> s.v.read_header1, header2 |-> s.v.read_header2,
              preview |-> preview, bricks |-> s.v.read_bricks.bricks,
              components |-> s.v.read_bricks.components],
             s.r)

ReadPreviewOf(s) == IF s.st = "Ok" THEN s.v.read_preview ELSE [type |-> "None"]

AllRead(r, s) == SaveDataOf(r, s, ReadPreviewOf(s))

read_all(r, buf) == AllRead(r, MakeCalls(AllCalls(FALSE), buf, 1, StartCalls(r)))

read_all_skip_preview(r, buf) ==
    SaveDataOf(r, MakeCalls(AllCalls(TRUE), buf, 1, StartCalls(r)), [type |-> "None"])

----------------------------------------------------------------------------
(* Default values of save.rs *)

DefaultHeader1 ==
    [map |-> Str_Unknown, description |-> <<>>,
     author |-> [name |-> Str_Unknown, id |-> NilUuid],
     host |-> NoUser, save_time |-> [i \in 1 .. 8 |-> 0], brick_count |-> 0]

\* "PB_DefaultBrick", "BMC_Plastic", "BPMC_Default"
DefaultHeader2 ==
    [mods |-> <<>>,
     brick_assets |-> <<<<80, 66, 95, 68, 101, 102, 97, 117, 108, 116, 66, 114, 105, 99, 107>>>>,
     colors |-> <<>>,
     materials |-> <<<<66, 77, 67, 95, 80, 108, 97, 115, 116, 105, 99>>>>,
     brick_owners |-> <<>>,
     physical_materials |-> <<<<66, 80, 77, 67, 95, 68, 101, 102, 97, 117, 108, 116>>>>]

\* Direction::ZPositive is 4, Rotation::Deg0 is 0
DefaultBrick ==
    [asset_name_index |-> {}, size |-> [procedural |-> FALSE],
     position |-> <<{}, {}, {}>>, direction |-> 4, rotation |-> 0,
     collision |-> for_all(TRUE), visibility |-> TRUE, material_index |-> {},
     physical_index |-> {}, material_intensity |-> U(5),
     color |-> [unique |-> FALSE, index |-> {}], owner_index |-> {},
     components |-> [x \in {} |-> {}]]

DefaultSaveData ==
    [version |-> SAVE_VERSION, game_version |-> 0, header1 |-> DefaultHeader1,
     header2 |-> DefaultHeader2, preview |-> [type |-> "None"], bricks |-> <<>>,
     components |-> [x \in {} |-> {}]]

----------------------------------------------------------------------------
(* codec harness *)

MaxSmall == 40
MaxRawBits == 5

\* powers of two, their predecessors and successors, over the whole width
EdgeWords == {{k} : k \in Bit} \cup {0 .. k : k \in Bit} \cup {{0, k} : k \in Bit}
EdgeValues == {{}} \cup {{k} : k \in Bit} \cup {0 .. k : k \in Bit}
SmallWords == {U(n) : n \in 0 .. MaxSmall}
Words == EdgeWords \cup SmallWords

\* i32 inputs with |v| <= 2^31 - 1
Magnitudes == {x \in Words : ~IsNegI32(x)}
I32Words == Magnitudes \cup {NegI32(x) : x \in Magnitudes}

RECURSIVE BitSeqs(_)
BitSeqs(n) == IF n = 0 THEN {<<>>}
              ELSE LET s == BitSeqs(n - 1)
                   IN s \cup {q \o <<b>> : q \in {t \in s : Len(t) = n - 1}, b \in {0, 1}}

Tails == {<<>>, <<1, 1, 1, 1, 1, 1, 1, 1>>}
ByteTails == {<<>>, <<65, 0>>}

MaxStrLen == 3
\* 'A', e-acute (2 UTF-8 bytes, 1 UTF-16 unit), U+65E5 (3 bytes, 1 unit),
\* U+1F600 (4 bytes, 2 units)
Chars == {65, 233, 26085, 128512}

RECURSIVE Strings(_)
Strings(n) == IF n = 0 THEN {<<>>}
              ELSE LET s == Strings(n - 1)
                   IN s \cup {Append(q, c) : q \in {t \in s : Len(t) = n - 1}, c \in Chars}

MaxPayload == 6
PayloadBytes == {0, 7}

RECURSIVE Payloads(_)
Payloads(n) == IF n = 0 THEN {<<>>}
               ELSE LET s == Payloads(n - 1)
                    IN s \cup {Append(q, c) : q \in {t \in s : Len(t) = n - 1},
                                              c \in PayloadBytes}

\* no reader is at work
NoReader ==
    /\ file = <<>> /\ reader = "none" /\ held = "none" /\ call = "none"
    /\ result = "none" /\ before = "none" /\ section = "none" /\ preview_done = FALSE

CodecInit ==
    /\ NoReader
    /\ phase = "input"
    /\ wr = "none"
    /\ rd = "none"
    /\ \/ kind = "uint_packed" /\ arg \in Words /\ tail \in Tails
       \/ kind = "int_packed" /\ arg \in I32Words /\ tail \in Tails
       \/ /\ kind = "uint"
          /\ tail \in Tails
          /\ arg \in {[value |-> v, max |-> m] : v \in SmallWords, m \in SmallWords}
                    \cup {[value |-> v, max |-> m] : v \in EdgeValues, m \in EdgeWords}
          /\ Lt({0}, arg.max) /\ Lt(arg.value, arg.max)
          \* of the edge values, zero and those within a factor 4 of max
          /\ arg.max \in SmallWords \/ arg.value = {} \/ ~Lt(arg.value, Shr(arg.max, 2))
       \/ /\ kind = "read_uint_raw"
          /\ tail \in Tails
          /\ arg \in {[bits |-> b, max |-> m] : b \in BitSeqs(MaxRawBits),
                                                m \in SmallWords \cup {Bit, {U32Bits - 1}}}
       \/ kind = "string" /\ arg \in Strings(MaxStrLen) /\ tail \in ByteTails
       \/ kind = "bit_string" /\ arg \in Strings(MaxStrLen) /\ tail \in Tails
       \/ /\ kind = "frame"
          /\ tail \in ByteTails
          /\ arg \in {[vec |-> v, should_compress |-> c] : v \in Payloads(MaxPayload),
                                                          c \in BOOLEAN}

WriteCompressed ==
    /\ phase = "input" /\ kind = "frame"
    /\ wr' = Emit(write_compressed(arg.vec, arg.should_compress))
    /\ phase' = "written"
    /\ UNCHANGED <<kind, arg, tail, rd, readerVars>>

ReadCompressed ==
    /\ phase = "written" /\ kind = "frame"
    /\ rd' = read_compressed(wr.out \o tail, 1)
    /\ phase' = "read"
    /\ UNCHANGED <<kind, arg, tail, wr, readerVars>>

WriteString ==
    /\ phase = "input" /\ kind = "string"
    /\ wr' = WriteExt_write_string(arg)
    /\ phase' = "written"
    /\ UNCHANGED <<kind, arg, tail, rd, readerVars>>

ReadString ==
    /\ phase = "written" /\ kind = "string" /\ wr.st = "Ok"
    /\ rd' = ReadExt_read_string(wr.out \o tail, 1)
    /\ phase' = "read"
    /\ UNCHANGED <<kind, arg, tail, wr, readerVars>>

WriteBitString ==
    /\ phase = "input" /\ kind = "bit_string"
    /\ wr' = BitWriteExt_write_string(arg)
    /\ phase' = "written"
    /\ UNCHANGED <<kind, arg, tail, rd, readerVars>>

ReadBitString ==
    /\ phase = "written" /\ kind = "bit_string" /\ wr.st = "Ok"
    /\ rd' = BitReadExt_read_string(wr.out \o tail, 1)
    /\ phase' = "read"
    /\ UNCHANGED <<kind, arg, tail, wr, readerVars>>

WriteUintPacked ==
    /\ phase = "input" /\ kind = "uint_packed"
    /\ wr' = write_uint_packed(arg)
    /\ phase' = "written"
    /\ UNCHANGED <<kind, arg, tail, rd, readerVars>>

ReadUintPacked ==
    /\ phase = "written" /\ kind = "uint_packed" /\ wr.st = "Ok"
    /\ rd' = read_uint_packed(wr.out \o tail, 1)
    /\ phase' = "read"
    /\ UNCHANGED <<kind, arg, tail, wr, readerVars>>

WriteIntPacked ==
    /\ phase = "input" /\ kind = "int_packed"
    /\ wr' = write_int_packed(arg)
    /\ phase' = "written"
    /\ UNCHANGED <<kind, arg, tail, rd, readerVars>>

ReadIntPacked ==
    /\ phase = "written" /\ kind = "int_packed" /\ wr.st = "Ok"
    /\ rd' = read_int_packed(wr.out \o tail, 1)
    /\ phase' = "read"
    /\ UNCHANGED <<kind, arg, tail, wr, readerVars>>

WriteUint ==
    /\ phase = "input" /\ kind = "uint"
    /\ wr' = write_uint(arg.value, arg.max)
    /\ phase' = "written"
    /\ UNCHANGED <<kind, arg, tail, rd, readerVars>>

ReadUint ==
    /\ phase = "written" /\ kind = "uint" /\ wr.st = "Ok"
    /\ rd' = read_uint(wr.out \o tail, 1, arg.max)
    /\ phase' = "read"
    /\ UNCHANGED <<kind, arg, tail, wr, readerVars>>

ReadUintRaw ==
    /\ phase = "input" /\ kind = "read_uint_raw"
    /\ rd' = read_uint(arg.bits \o tail, 1, arg.max)
    /\ phase' = "read"
    /\ UNCHANGED <<kind, arg, tail, wr, readerVars>>

CodecNext ==
    \/ WriteUintPacked \/ ReadUintPacked
    \/ WriteIntPacked \/ ReadIntPacked
    \/ WriteUint \/ ReadUint
    \/ ReadUintRaw
    \/ WriteString \/ ReadString
    \/ WriteBitString \/ ReadBitString
    \/ WriteCompressed \/ ReadCompressed

SpecCodec == CodecInit /\ [][CodecNext]_vars

----------------------------------------------------------------------------
(* A SaveReader and its caller.  The caller makes any sequence of calls on *)
(* a reader constructed over a file; read_bricks is given the headers the  *)
(* caller last read, or the default headers when it skipped them.          *)

\* two saves to write: the default one, and one with a preview, a palette
\* and two bricks
SmallSave ==
    [DefaultSaveData EXCEPT
        !.game_version = 6000,
        !.preview = [type |-> "PNG", bytes |-> <<137, 80>>],
        !.header2.colors = <<[r |-> 1, g |-> 2, b |-> 3, a |-> 255],
                             [r |-> 9, g |-> 9, b |-> 9, a |-> 255]>>,
        !.bricks = <<DefaultBrick,
                     [DefaultBrick EXCEPT !.position = <<U(5), NegI32(U(3)), {}>>,
                                          !.color = [unique |-> FALSE, index |-> {0}]]>>]

\* a version 7 file without bricks: no game version, no host, no preview,
\* no owner brick counts, no physical materials, no components section
LegacyFile ==
    MAGIC_BYTES \o U16LE(7)
    \o write_compressed(StringBytes(Str_Unknown) \o StringBytes(Str_Unknown)
                        \o StringBytes(<<>>) \o write_uuid(NilUuid)
                        \o [i \in 1 .. 8 |-> 0] \o I32LE(0), FALSE)
    \o write_compressed(I32LE(0) \o I32LE(0) \o I32LE(0) \o I32LE(0) \o I32LE(0), FALSE)
    \o write_compressed(<<>>, FALSE)

Written(data, compressed) == SaveWriter_write(data, compressed, <<>>, <<>>).out

\* the sizes a damaged section header may hold
MaxFrameSize == 1
FrameSizes == {-1} \cup (0 .. MaxFrameSize)

\* buf with the bytes from index p on replaced by bytes
Overwrite(buf, p, bytes) ==
    [i \in 1 .. Len(buf) |->
        IF i >= p /\ i < p + Len(bytes) THEN bytes[i - p + 1] ELSE buf[i]]

\* the file w with the section header at index p holding the sizes u and c
Damaged(w, p, u, c) == Overwrite(w, p, I32LE(u) \o I32LE(c))

\* where the sections of the written save start: header 0 is the magic
\* bytes, the version and the game version; a section that is not
\* compressed is 8 bytes of sizes and its payload; the preview is its type
\* byte, its length and its bytes; the components section, which holds no
\* component, is the last 8 bytes of sizes and a count of the file w
Header1At == Len(MAGIC_BYTES) + 2 + 4 + 1
Header2At == Header1At + 8 + Len(Header1Payload(SmallSave))
BricksAt == Header2At + 8 + Len(Header2Payload(SmallSave)) + Len(PreviewBytes(SmallSave))
ComponentsAt(w) == Len(w) - (8 + 4) + 1

\* a components section as the reader takes it: the count, then for each
\* component its name, the byte length of its bit stream, and the bit
\* stream: version, brick_indices, properties, the values for each brick.
\* Here one component with one property of type ty, carried by the bricks
\* indices (of the two bricks of the save), each with the value byte 9.
ComponentBits(indices, ty) ==
    BitWriteExt_write_i32(1)
    \o BitWriteExt_write_i32(Len(indices))
    \o Flatten([k \in 1 .. Len(indices) |-> write_uint(U(indices[k]), U(2)).out])
    \o BitWriteExt_write_i32(1)
    \o BitWriteExt_write_string(<<97>>).out \o BitWriteExt_write_string(ty).out
    \o Flatten([k \in 1 .. Len(indices) |-> write_bytes(<<9>>)])

ComponentsBytes(bit_bytes) ==
    I32LE(1) \o StringBytes(<<76>>) \o I32LE(Len(bit_bytes)) \o bit_bytes

\* the file w with those components sections, one for each list of brick
\* indices
ComponentFiles(w, lists, ty) ==
    {SubSeq(w, 1, ComponentsAt(w) - 1) \o write_compressed(s, FALSE)
        : s \in {ComponentsBytes(b)
                    : b \in {BitsToBytes(a)
                                : a \in {AlignBits(ComponentBits(i, ty)) : i \in lists}}}}

\* a type name that is none of the eight: "X"
Str_X == <<88>>
UnknownIndices == {<<>>, <<0>>, <<1, 0>>}
UnknownTypeFiles == ComponentFiles(Written(SmallSave, FALSE), UnknownIndices, Str_X)

\* the file w, which holds two bricks, with a header 1 that says n
CountFile(w, n) == Overwrite(w, Header2At - 4, I32LE(n))
BrickCounts == {1, Len(SmallSave.bricks) + 1}
CountFiles == {CountFile(Written(SmallSave, FALSE), n) : n \in BrickCounts}

\* the files made from the written save w: w cut short inside its bricks
\* section, w with a damaged section header, w with one component, and w
\* with a brick_count that is not the number of bricks
FilesFrom(w) ==
    {SubSeq(w, 1, Len(w) - 12)}
    \cup {Damaged(w, Header1At, u, c) : u \in FrameSizes, c \in FrameSizes}
    \cup {Damaged(w, p, s[1], s[2]) : p \in {Header2At, BricksAt, ComponentsAt(w)},
                                      s \in {<<-1, 0>>, <<0, -1>>, <<1, 2>>}}
    \cup ComponentFiles(w, {<<1>>}, Str_Byte)
    \cup ComponentFiles(CountFile(w, 1), {<<1>>}, Str_Byte)
    \cup ComponentFiles(w, UnknownIndices, Str_X)
    \cup {CountFile(w, n) : n \in BrickCounts}

\* the files: written saves, a legacy file, and the files made from one of
\* the written saves
Files ==
    {Written(d, c) : d \in {DefaultSaveData, SmallSave}, c \in BOOLEAN}
    \cup {LegacyFile}
    \cup UNION {FilesFrom(w) : w \in {Written(SmallSave, FALSE)}}

\* the order of the sections of a file of a version
FirstSection == "header1"
NextSection(s, version) ==
    IF s = "header1" THEN "header2"
    ELSE IF s = "header2" THEN (IF version >= 8 THEN "preview" ELSE "bricks")
    ELSE IF s = "preview" THEN "bricks"
    ELSE "done"

\* the section a call is for
Target(c) ==
    IF c \in {"read_header1", "skip_header1"} THEN "header1"
    ELSE IF c \in {"read_header2", "skip_header2"} THEN "header2"
    ELSE IF c \in {"read_preview", "skip_preview"} THEN "preview"
    ELSE "bricks"

\* the next unconsumed section after call c returned st
Consumed(s, c, st, version) ==
    IF st = "Ok" /\ Target(c) = s THEN NextSection(s, version) ELSE s

ReaderInit ==
    /\ kind = "none" /\ arg = "none" /\ tail = <<>> /\ phase = "none"
    /\ wr = "none" /\ rd = "none"
    /\ file \in Files
    /\ SaveReader_new(file).st = "Ok"
    /\ reader = SaveReader_new(file).r
    /\ held = [header1 |-> DefaultHeader1, header2 |-> DefaultHeader2]
    /\ call = "new"
    /\ result = "Ok"
    /\ before = reader
    /\ section = [was |-> FirstSection, now |-> FirstSection]
    /\ preview_done = FALSE

\* a panic ends the caller
Running == result \notin {"Panic", "ArithmeticOverflow"}

\* one call c that returned x
Called(c, x) ==
    /\ Running
    /\ call' = c
    /\ result' = x.st
    /\ before' = reader
    /\ reader' = x.r
    /\ section' = [was |-> section.now,
                   now |-> Consumed(section.now, c, x.st, reader.version)]
    /\ UNCHANGED <<file, codecVars>>

\* the caller keeps a header it has read
Keep(h, f, x) == IF x.st = "Ok" THEN [h EXCEPT ![f] = x.v] ELSE h

HeaderCalled(c, f, x) ==
    /\ Called(c, x)
    /\ held' = Keep(held, f, x)
    /\ UNCHANGED preview_done

PreviewCalled(c, x) ==
    /\ Called(c, x)
    /\ preview_done' = (preview_done \/ x.st = "Ok")
    /\ UNCHANGED held

ReadHeader1 == HeaderCalled("read_header1", "header1", read_header1(reader, file))

SkipHeader1 ==
    /\ Called("skip_header1", skip_header1(reader, file))
    /\ UNCHANGED <<held, preview_done>>

ReadHeader2 == HeaderCalled("read_header2", "header2", read_header2(reader, file))

SkipHeader2 ==
    /\ Called("skip_header2", skip_header2(reader, file))
    /\ UNCHANGED <<held, preview_done>>

ReadPreview == PreviewCalled("read_preview", read_preview(reader, file))

SkipPreview == PreviewCalled("skip_preview", skip_preview(reader, file))

ReadBricks ==
    /\ Called("read_bricks", read_bricks(reader, file, held.header1, held.header2))
    /\ UNCHANGED <<held, preview_done>>

\* the next unconsumed section after the calls of read_all that returned Ok
RECURSIVE ConsumedAll(_, _, _, _, _)
ConsumedAll(s, calls, k, returned, version) ==
    IF k > Len(calls) \/ calls[k] \notin returned THEN s
    ELSE ConsumedAll(Consumed(s, calls[k], "Ok", version), calls, k + 1, returned, version)

\* read_all or read_all_skip_preview returned x, having made the calls s
AllCalled(c, calls, s, x) ==
    /\ Running
    /\ call' = c
    /\ result' = x.st
    /\ before' = reader
    /\ reader' = x.r
    /\ section' = [was |-> section.now,
                   now |-> ConsumedAll(section.now, calls, 1, DOMAIN s.v, reader.version)]
    /\ held' = [header1 |-> IF "read_header1" \in DOMAIN s.v THEN s.v.read_header1
                            ELSE held.header1,
                header2 |-> IF "read_header2" \in DOMAIN s.v THEN s.v.read_header2
                            ELSE held.header2]
    /\ preview_done' = (preview_done \/ calls[3] \in DOMAIN s.v)
    /\ UNCHANGED <<file, codecVars>>

ReadAll ==
    AllCalled("read_all", AllCalls(FALSE),
              MakeCalls(AllCalls(FALSE), file, 1, StartCalls(reader)),
              read_all(reader, file))

ReadAllSkipPreview ==
    AllCalled("read_all_skip_preview", AllCalls(TRUE),
              MakeCalls(AllCalls(TRUE), file, 1, StartCalls(reader)),
              read_all_skip_preview(reader, file))

Next ==
    \/ ReadHeader1 \/ SkipHeader1
    \/ ReadHeader2 \/ SkipHeader2
    \/ ReadPreview \/ SkipPreview
    \/ ReadBricks
    \/ ReadAll \/ ReadAllSkipPreview

Spec == ReaderInit /\ [][Next]_vars

----------------------------------------------------------------------------
(* Claims about the section order (checked under Spec) *)

SectionCalls ==
    {"read_header1", "skip_header1", "read_header2", "skip_header2",
     "read_preview", "skip_preview", "read_bricks"}

\* C1: in any sequence of calls to read_header1, skip_header1, read_header2,
\* skip_header2, read_preview, skip_preview and read_bricks, a call that is
\* not for the next unconsumed section (in the order header1, header2,
\* preview from version 8 on, bricks) returns BadSectionReadOrder.  A
\* preview call on a file older than version 8, which has no preview
\* section, is left out of the statement.
C1_SectionOrder ==
    (/\ call \in SectionCalls
     /\ Target(call) # section.was
     /\ ~(before.version < 8 /\ Target(call) = "preview"))
        => result = "BadSectionReadOrder"

\* C2: on a file of version 8 or later, as long as neither read_preview nor
\* skip_preview has returned Ok, read_bricks returns BadSectionReadOrder,
\* whatever header calls were made before.
C2_BricksBeforePreview ==
    (call = "read_bricks" /\ before.version >= 8 /\ ~preview_done)
        => result = "BadSectionReadOrder"

\* both headers have been read, the preview has not, and read_bricks was
\* called
C2_Witness ==
    /\ call = "read_bricks" /\ before.version >= 8 /\ ~preview_done
    /\ before.header1_read /\ before.header2_read
    /\ result = "BadSectionReadOrder"

\* C3: when read_header2, read_preview, skip_preview or read_bricks returns
\* BadSectionReadOrder, the reader is as it was before the call: no byte of
\* the source has been consumed and header1_read, header2_read and
\* preview_read are unchanged.
C3_NoConsumption ==
    (/\ call \in {"read_header2", "read_preview", "skip_preview", "read_bricks"}
     /\ result = "BadSectionReadOrder")
        => reader = before

\* a call rejected after an earlier section has been consumed
C3_Witness ==
    /\ call \in {"read_preview", "skip_preview"}
    /\ result = "BadSectionReadOrder"
    /\ before.header1_read
    /\ reader.pos > 10

\* C11: read_compressed and skip_compressed return InvalidCompression
\* exactly when uncompressed_size < 0, compressed_size < 0 or
\* compressed_size > uncompressed_size, and a section call that fails this
\* way leaves the flags of the reader as they were.  A call that returned
\* InvalidCompression stopped right after the two sizes, so they are the 8
\* bytes before the position of the reader; a call that passed its order
\* test read its first sizes at the position it started from.
FrameCalls ==
    {"read_header1", "skip_header1", "read_header2", "skip_header2", "read_bricks"}

BadSizes(buf, p) ==
    LET uncompressed_size == I32Of(SubSeq(buf, p, p + 3))
        compressed_size == I32Of(SubSeq(buf, p + 4, p + 7))
    IN uncompressed_size < 0 \/ compressed_size < 0
       \/ compressed_size > uncompressed_size

Flags(r) == <<r.header1_read, r.header2_read, r.preview_read>>

C11_InvalidCompression ==
    call \in FrameCalls =>
        /\ result = "InvalidCompression" =>
              /\ reader.pos >= before.pos + 8
              /\ BadSizes(file, reader.pos - 8)
              /\ Flags(reader) = Flags(before)
        /\ (/\ result # "BadSectionReadOrder"
            /\ before.pos + 7 <= Len(file)
            /\ BadSizes(file, before.pos)) => result = "InvalidCompression"
        /\ (call = "read_bricks" /\ result = "Ok" /\ before.version >= 8) =>
              ~BadSizes(file, skip_compressed(file, before.pos).p)

\* skip_header1 on a header 1 whose compressed_size exceeds its uncompressed_size
C11_Witness ==
    /\ result = "InvalidCompression"
    /\ call = "skip_header1" /\ ~reader.header1_read
    /\ file = Damaged(Written(SmallSave, FALSE), Header1At, 0, 1)

\* C13: reading a components section in which a component declares a
\* property whose type name is none of Class, Object, String, Boolean,
\* Float, Color, Byte, Rotator fails with an InvalidData error (an
\* io::Error, which read_bricks returns as ReadError::IoError), also when
\* the brick_indices array of the component is empty.  The call is the
\* read_bricks made when the bricks are the next unconsumed section.
HeadersHeld ==
    /\ held.header1.brick_count = Len(SmallSave.bricks)
    /\ held.header2.colors = SmallSave.header2.colors

C13_UnknownType ==
    (/\ call = "read_bricks"
     /\ before.preview_read /\ before.header2_read /\ before.pos = BricksAt
     /\ HeadersHeld
     /\ file \in UnknownTypeFiles) => result = "IoError"

\* the bricks that read_bricks returned
BricksReturned == read_bricks(before, file, held.header1, held.header2).v.bricks

\* C17: the brick loop of read_bricks terminates; it stops without error
\* as soon as bricks.len() equals header1.brick_count or the byte-aligned
\* cursor is at the end of the decompressed bricks, whichever comes first:
\* it returns no more than brick_count bricks, and just the encoded bricks
\* when brick_count is larger.  The call is the read_bricks made with the
\* reader at the start of the bricks section of a file that holds the two
\* bricks of the written save, with the header 2 of the file and any
\* header 1 the caller holds (brick_count 0, 1, 2 or 3).
C17_BrickLoop ==
    (/\ call = "read_bricks"
     /\ before.preview_read /\ before.header2_read /\ before.pos = BricksAt
     /\ held.header2.colors = SmallSave.header2.colors
     /\ file \in CountFiles \cup {Written(SmallSave, FALSE)}) =>
        /\ result = "Ok"
        /\ Len(BricksReturned) = Min(held.header1.brick_count, Len(SmallSave.bricks))
        /\ BricksReturned = SubSeq(SmallSave.bricks, 1, Len(BricksReturned))

\* header 1 says three bricks and the section holds two
C17_Witness ==
    /\ call = "read_bricks" /\ result = "Ok"
    /\ before.pos = BricksAt
    /\ file = CountFile(Written(SmallSave, FALSE), 3)
    /\ held.header1.brick_count = 3
    /\ Len(BricksReturned) = 2

----------------------------------------------------------------------------
(* Writing a save and reading it back.  The harness variables hold the     *)
(* save (arg), what SaveWriter::write returned and left in the sink (wr)   *)
(* and what the reader returned (rd).                                      *)

MaxBricks == 2
MaxColors == 2

\* the iteration orders of a HashMap with keys S
Orders(S) ==
    {f \in [1 .. Cardinality(S) -> S] : \A i, j \in 1 .. Cardinality(S) : f[i] = f[j] => i = j}

Seqs(S, n) == UNION {[1 .. k -> S] : k \in 0 .. n}

Palette(n) == [i \in 1 .. n |-> [r |-> 10 * i, g |-> 20, b |-> 30, a |-> 255]]

\* bricks for a palette of n colors: each index into it with and without an
\* owner, an opaque and a
\* translucent unique color, a procedural brick away from the origin
BrickKinds(n) ==
    {[DefaultBrick EXCEPT !.color = [unique |-> FALSE, index |-> U(i)],
                          !.owner_index = U(o)] : i \in 0 .. (n - 1), o \in {0, 1}}
    \cup {[DefaultBrick EXCEPT !.color = [unique |-> TRUE,
                                         color |-> [r |-> 1, g |-> 2, b |-> 3, a |-> al]]]
          : al \in {255, 7}}
    \cup {[DefaultBrick EXCEPT !.size = [procedural |-> TRUE, x |-> U(5), y |-> U(300),
                                        z |-> U(1)],
                               !.position = <<U(5), NegI32(U(130)), {}>>,
                               !.direction = 2, !.rotation = 3,
                               !.collision = [player |-> TRUE, weapon |-> FALSE,
                                              interaction |-> TRUE, tool |-> FALSE],
                               !.visibility = FALSE,
                               !.material_intensity = U(10),
                               !.color = [unique |-> TRUE,
                                          color |-> [r |-> 1, g |-> 2, b |-> 3, a |-> 255]],
                               !.owner_index = U(1)]}

\* saves that differ in their palette and bricks
BrickSaves ==
    {[DefaultSaveData EXCEPT !.header2.colors = Palette(n),
                             !.header2.brick_owners =
                                 <<[name |-> <<66>>, id |-> [i \in 1 .. 16 |-> i],
                                    bricks |-> Len(b)]>>,
                             !.bricks = b]
     : <<n, b>> \in UNION {{<<m, c>> : c \in Seqs(BrickKinds(m), MaxBricks)}
                           : m \in 0 .. MaxColors}}

\* saves that differ in their headers and preview
HeaderSaves ==
    {[DefaultSaveData EXCEPT !.version = v, !.game_version = g,
                             !.header1.description = d, !.header1.host = h,
                             !.header1.brick_count = 3,
                             !.header2.mods = <<d>>, !.preview = pv]
     : v \in {7, SAVE_VERSION}, g \in {0, -1}, d \in {<<>>, <<65, 66>>, <<233>>},
       h \in {NoUser, SomeUser([name |-> <<72>>, id |-> [i \in 1 .. 16 |-> 17 - i]])},
       pv \in {[type |-> "None"], [type |-> "PNG", bytes |-> <<137, 80>>],
               [type |-> "JPEG", bytes |-> <<>>],
               [type |-> "Unknown", tag |-> 7, bytes |-> <<1>>]}}

\* a save with two bricks carrying one component with two properties
Str_Light == <<76>>
ComponentSave ==
    [DefaultSaveData EXCEPT
        !.header2.colors = Palette(2),
        !.bricks =
            <<[DefaultBrick EXCEPT !.components =
                   [x \in {Str_Light} |->
                       [y \in {<<97>>, <<98>>} |->
                           IF y = <<97>> THEN [t |-> "Byte", v |-> 9]
                           ELSE [t |-> "Boolean", v |-> TRUE]]]],
              DefaultBrick>>,
        !.components =
            [x \in {Str_Light} |->
                [version |-> 1, brick_indices |-> <<{}>>,
                 properties |-> [y \in {<<97>>, <<98>>} |->
                                    IF y = <<97>> THEN Str_Byte ELSE Str_Boolean]]]]

\* a second component name and a third property name
Str_Motor == <<77>>
ByteValue == [t |-> "Byte", v |-> 9]

\* saves that differ in what their bricks supply for the declared
\* components: a brick without the value of property "b"; the same with an
\* asset index that cannot be written; a brick with a value for a property
\* that is not declared; a brick carrying a component that is not declared;
\* a second declared component whose brick supplies no value
ComponentSaves ==
    {[ComponentSave EXCEPT !.bricks[1].components[Str_Light] =
                               [y \in {<<97>>} |-> ByteValue],
                           !.bricks[1].asset_name_index = i] : i \in {{}, U(5)}}
    \cup {[ComponentSave EXCEPT !.bricks[1].components[Str_Light] =
                                    [y \in {<<97>>, <<98>>, <<99>>} |->
                                        IF y = <<98>> THEN [t |-> "Boolean", v |-> FALSE]
                                        ELSE ByteValue]],
           [ComponentSave EXCEPT !.bricks[2].components =
                                    [x \in {Str_Motor} |-> [y \in {<<97>>} |-> ByteValue]]],
           [ComponentSave EXCEPT
               !.bricks[2].components = [x \in {Str_Motor} |-> [y \in {} |-> ByteValue]],
               !.components =
                   [x \in {Str_Light, Str_Motor} |->
                       IF x = Str_Light THEN ComponentSave.components[Str_Light]
                       ELSE [version |-> 2, brick_indices |-> <<{0}>>,
                             properties |-> [y \in {<<97>>} |-> Str_Byte]]]]}

\* a save that declares a component no brick carries
UnusedSave ==
    [DefaultSaveData EXCEPT
        !.components = [x \in {Str_Light} |->
                           [version |-> 3, brick_indices |-> <<>>,
                            properties |-> [y \in {<<97>>} |-> Str_Byte]]]]

\* saves that differ in their preview: every kind, Unknown with tag bytes
\* that are and are not those of the other kinds
PreviewData == {<<>>, <<171, 205>>}
Previews ==
    {[type |-> "None"]}
    \cup {[type |-> ty, bytes |-> b] : ty \in {"PNG", "JPEG"}, b \in PreviewData}
    \cup {[type |-> "Unknown", tag |-> tg, bytes |-> b]
          : tg \in {0, 1, 2, 3, 7, 255}, b \in PreviewData}
PreviewSaves == {[DefaultSaveData EXCEPT !.preview = pv] : pv \in Previews}

\* saves whose second brick has one packed field at or past the end of its
\* range, or a color index that its width holds although the palette is
\* empty
EdgeBricks ==
    {[DefaultBrick EXCEPT !.asset_name_index = U(n)] : n \in {2, 5}}
    \cup {[DefaultBrick EXCEPT !.material_index = U(2)],
          [DefaultBrick EXCEPT !.physical_index = U(2)],
          [DefaultBrick EXCEPT !.material_intensity = U(11)]}
    \cup {[DefaultBrick EXCEPT !.color = [unique |-> FALSE, index |-> U(n)]] : n \in {1, 2}}
EdgeSaves == {[DefaultSaveData EXCEPT !.bricks = <<DefaultBrick, b>>] : b \in EdgeBricks}

\* saves with two declared components whose stored brick_indices are not
\* the bricks that carry them: both bricks carry the first, the second
\* brick the second
IndexSave(stored) ==
    [ComponentSave EXCEPT
        !.bricks[2].components =
            [x \in {Str_Light, Str_Motor} |->
                IF x = Str_Light
                THEN [y \in {<<97>>, <<98>>} |->
                         IF y = <<97>> THEN [t |-> "Byte", v |-> 7]
                         ELSE [t |-> "Boolean", v |-> FALSE]]
                ELSE [y \in {<<97>>} |-> ByteValue]],
        !.components =
            [x \in {Str_Light, Str_Motor} |->
                IF x = Str_Light
                THEN [ComponentSave.components[Str_Light] EXCEPT !.brick_indices = stored]
                ELSE [version |-> 2, brick_indices |-> <<{0}>>,
                      properties |-> [y \in {<<97>>} |-> Str_Byte]]]]
IndexSaves == {IndexSave(s) : s \in {<<>>, <<{0}>>, <<{0}, {}>>}}

Saves ==
    BrickSaves \cup HeaderSaves \cup {ComponentSave, UnusedSave} \cup ComponentSaves
    \cup PreviewSaves \cup EdgeSaves \cup IndexSaves

RoundTripInit ==
    /\ NoReader
    /\ kind = "save" /\ arg \in Saves /\ tail = <<>> /\ phase = "input"
    /\ wr = "none" /\ rd = "none"

\* SaveWriter::new(sink, arg).write() with either setting of compressed,
\* the maps iterating in any order
SaveWrite ==
    /\ kind = "save" /\ phase = "input"
    /\ \E compressed \in BOOLEAN, names \in Orders(DOMAIN arg.components) :
          \E properties \in {f \in [DOMAIN arg.components ->
                                       UNION {Orders(DOMAIN arg.components[n].properties)
                                              : n \in DOMAIN arg.components}] :
                                \A n \in DOMAIN arg.components :
                                    f[n] \in Orders(DOMAIN arg.components[n].properties)} :
              wr' = SaveWriter_write(arg, compressed, names, properties)
    /\ phase' = "written"
    /\ UNCHANGED <<kind, arg, tail, rd, readerVars>>

\* a call on the reader that SaveReader::new returns
OnNew(n, x) == IF n.st # "Ok" THEN n ELSE x

\* SaveReader::new(bytes)?.read_all()
SaveReadAll ==
    /\ kind = "save" /\ phase = "written" /\ wr.st = "Ok"
    /\ rd' = OnNew(SaveReader_new(wr.out), read_all(SaveReader_new(wr.out).r, wr.out))
    /\ phase' = "read_all"
    /\ UNCHANGED <<kind, arg, tail, wr, readerVars>>

\* SaveReader::new(bytes)?.read_all_skip_preview()
SaveReadAllSkipPreview ==
    /\ kind = "save" /\ phase = "written" /\ wr.st = "Ok"
    /\ rd' = OnNew(SaveReader_new(wr.out),
                   read_all_skip_preview(SaveReader_new(wr.out).r, wr.out))
    /\ phase' = "read_all_skip_preview"
    /\ UNCHANGED <<kind, arg, tail, wr, readerVars>>

RoundTripNext == SaveWrite \/ SaveReadAll \/ SaveReadAllSkipPreview

SpecRoundTrip == RoundTripInit /\ [][RoundTripNext]_vars

\* the invariants of the data model that the round trip assumes
Invariants(s) ==
    /\ \A i \in 1 .. Len(s.bricks) :
          LET b == s.bricks[i]
          IN /\ Lt(b.asset_name_index, U(Len(s.header2.brick_assets)))
             /\ b.color.unique \/ Lt(b.color.index, U(Len(s.header2.colors)))
             /\ Lt(b.material_index, U(Len(s.header2.materials)))
             /\ Lt(b.physical_index, U(Len(s.header2.physical_materials)))
             /\ Lt(b.material_intensity, U(11))
             /\ b.direction * 4 + b.rotation < 24
             /\ DOMAIN b.components \subseteq DOMAIN s.components
             /\ \A n \in DOMAIN b.components :
                   /\ DOMAIN b.components[n] = DOMAIN s.components[n].properties
                   /\ \E k \in 1 .. Len(s.components[n].brick_indices) :
                         s.components[n].brick_indices[k] = U(i - 1)
    /\ \A n \in DOMAIN s.components :
          \A k \in 1 .. Len(s.components[n].brick_indices) :
             \E i \in 1 .. Len(s.bricks) :
                /\ s.components[n].brick_indices[k] = U(i - 1)
                /\ n \in DOMAIN s.bricks[i].components

\* what the round trip is specified to return for s
Expected(s) ==
    [s EXCEPT !.version = SAVE_VERSION,
              !.header1.brick_count = Len(s.bricks),
              !.header1.host = IF s.header1.host.some THEN s.header1.host
                               ELSE SomeUser(s.header1.author)]

\* C4: for a save s that satisfies the invariants of the data model,
\* read_all on the bytes SaveWriter::write(s) produced returns a save equal
\* to s except that version is 10, header1.brick_count is bricks.len() and
\* a host of None is Some(author).
C4_RoundTrip ==
    (kind = "save" /\ phase = "read_all" /\ Invariants(arg))
        => (rd.st = "Ok" /\ rd.v = Expected(arg))

\* some brick that carries a declared component lacks a value for one of
\* the properties the component declares
MissingValue(s) ==
    \E i \in 1 .. Len(s.bricks) :
       \E n \in DOMAIN s.bricks[i].components \cap DOMAIN s.components :
          \E p \in DOMAIN s.components[n].properties : p \notin DOMAIN s.bricks[i].components[n]

\* C12 as stated: SaveWriter::write fails with ComponentBrickError exactly
\* when some brick that carries a declared component lacks a value for one
\* of its declared properties.
C12_AsStated ==
    (kind = "save" /\ phase # "input") =>
        (wr.st = "ComponentBrickError" <=> MissingValue(arg))

\* the components section for UnusedSave: one component, its name, its
\* version, an empty brick_indices array, one property and its type
UnusedComponents ==
    I32LE(1) \o StringBytes(Str_Light)
    \o I32LE(3) \o I32LE(0) \o I32LE(1) \o StringBytes(<<97>>) \o StringBytes(Str_Byte)

EndsWith(out, bytes) ==
    /\ Len(out) >= Len(bytes)
    /\ SubSeq(out, Len(out) - Len(bytes) + 1, Len(out)) = bytes

\* C12: provided the bricks section was written (the writer fails with an
\* I/O error there when a brick index is not below its count),
\* SaveWriter::write fails with ComponentBrickError exactly when some brick
\* that carries a declared component lacks a value for one of its declared
\* properties; a declared component that no brick carries is emitted with
\* an empty brick_indices array; the writer fails in no other way than
\* with an I/O error.
C12_ComponentBrickError ==
    (kind = "save" /\ phase # "input") =>
        /\ wr.st = "ComponentBrickError"
              <=> (BricksPayload(arg).st = "Ok" /\ MissingValue(arg))
        /\ wr.st \in {"Ok", "IoError", "ComponentBrickError"}
        /\ arg = UnusedSave =>
              /\ wr.st = "Ok"
              /\ \E c \in BOOLEAN : EndsWith(wr.out, write_compressed(UnusedComponents, c))

\* of two declared components one is complete on its brick, and the brick
\* carrying the other supplies no value
C12_Witness ==
    /\ kind = "save" /\ phase = "written"
    /\ DOMAIN arg.components = {Str_Light, Str_Motor}
    /\ wr.st = "ComponentBrickError"

\* the bytes a preview carries (Preview::None carries none)
BytesOf(preview) == IF preview.type = "None" THEN <<>> ELSE preview.bytes

\* C14: for every Preview value (None, PNG, JPEG, Unknown with any tag byte
\* and any bytes), the preview read back from the written save has the same
\* type byte and the same bytes.
C14_PreviewRoundTrip ==
    (kind = "save" /\ phase = "read_all" /\ arg \in PreviewSaves) =>
        /\ rd.st = "Ok"
        /\ type_byte(rd.v.preview) = type_byte(arg.preview)
        /\ BytesOf(rd.v.preview) = BytesOf(arg.preview)

\* the written save was read back whole
ReadBack ==
    /\ kind = "save" /\ phase = "read_all"
    /\ rd.st = "Ok" /\ Len(rd.v.bricks) = Len(arg.bricks)

WrittenBrickCount ==
    LET header1 == read_compressed(wr.out, Len(MAGIC_BYTES) + 2 + 4 + 1).bytes
    IN I32Of(SubSeq(header1, Len(header1) - 3, Len(header1)))

\* C16: SaveWriter::write always emits container version 10 and a Header1
\* brick_count equal to bricks.len(), whatever SaveData.version and
\* header1.brick_count hold; the widths it packs the bricks with are those
\* of the current palettes, so that the bricks of a save whose stored
\* brick_count is wrong are read back (a palette of one color apart, which
\* the reader packs with another width than the writer).
C16_DerivedCounts ==
    (kind = "save" /\ phase # "input") =>
        /\ SubSeq(wr.out, 1, Len(MAGIC_BYTES) + 2) = MAGIC_BYTES \o <<SAVE_VERSION, 0>>
        /\ WrittenBrickCount = Len(arg.bricks)
        /\ (phase = "read_all" /\ arg \in BrickSaves /\ Len(arg.header2.colors) # 1) =>
              /\ ReadBack
              /\ rd.v.header1.brick_count = Len(arg.bricks)
              /\ \A i \in 1 .. Len(arg.bricks) :
                    [rd.v.bricks[i] EXCEPT !.color = 0] = [arg.bricks[i] EXCEPT !.color = 0]

\* a save that says version 7 and three bricks, and has none
C16_Witness ==
    /\ kind = "save" /\ phase = "written"
    /\ arg.version = 7 /\ arg.header1.brick_count = 3 /\ arg.bricks = <<>>
    /\ wr.out[Len(MAGIC_BYTES) + 1] = SAVE_VERSION
    /\ WrittenBrickCount = 0

----------------------------------------------------------------------------
(* Claims about the stream primitives (checked under SpecCodec) *)

\* what write_string is specified to emit for a non-ASCII string: minus the
\* number of UTF-16 code units, the code units little-endian, one null byte
Ucs2Wire(string) ==
    I32LE(-Len(encode_utf16(string)))
    \o Flatten([i \in 1 .. Len(encode_utf16(string)) |-> U16LE(encode_utf16(string)[i])])
    \o <<0>>

\* C5: read_string applied to the bytes write_string emitted returns the
\* string and consumes exactly the emitted bytes, on the byte stream and on
\* the bit stream; ASCII strings get a positive length prefix and non-ASCII
\* strings a negative one.
C5_StringRoundTrip ==
    /\ (kind \in {"string", "bit_string"} /\ phase = "read") =>
           /\ rd.st = "Ok"
           /\ rd.v = arg
           /\ rd.p = Len(wr.out) + 1
    /\ (kind = "string" /\ phase = "written" /\ arg # <<>>) =>
           (is_ascii(arg) <=> I32Of(SubSeq(wr.out, 1, 4)) > 0)

\* C6: for every non-ASCII string write_string emits the prefix
\* -(UTF-16 code units), that many little-endian code units and one null
\* byte, on the byte stream and (as the same bytes) on the bit stream.
C6_Ucs2Wire ==
    (phase = "written" /\ kind \in {"string", "bit_string"} /\ ~is_ascii(arg)) =>
        /\ wr.st = "Ok"
        /\ kind = "string" => wr.out = Ucs2Wire(arg)
        /\ kind = "bit_string" => wr.out = write_bytes(Ucs2Wire(arg))

\* C7: read_uint_packed applied to the bits of write_uint_packed(v) returns
\* v and consumes exactly the emitted bits, and the writer emits at most
\* the 5 groups of 1 + 7 bits the reader reads.
C7_UintPackedRoundTrip ==
    /\ (kind = "uint_packed" /\ phase # "input") =>
           /\ wr.st = "Ok"
           /\ Len(wr.out) <= PackedGroups * (1 + PackedPayloadBits)
    /\ (kind = "uint_packed" /\ phase = "read") =>
           /\ rd.st = "Ok"
           /\ rd.v = arg
           /\ rd.p = Len(wr.out) + 1

C7_Witness ==
    /\ kind = "uint_packed" /\ phase = "read"
    /\ arg = Bit
    /\ tail # <<>>
    /\ Len(wr.out) = PackedGroups * (1 + PackedPayloadBits)
    /\ rd.v = Bit

\* C8: for every i32 v with |v| <= 2^31 - 1, read_int_packed applied to the
\* bits of write_int_packed(v) returns v; the encoded word is
\* (|v| << 1) | (v >= 0), with bit 31 of it kept.
C8_IntPackedRoundTrip ==
    /\ (kind = "int_packed" /\ phase # "input") =>
           /\ wr.st = "Ok"
           /\ LET e == read_uint_packed(wr.out, 1)
              IN /\ e.st = "Ok"
                 /\ (0 \in e.v) <=> ~IsNegI32(arg)
                 /\ Shr(e.v, 1) = unsigned_abs(arg)
    /\ (kind = "int_packed" /\ phase = "read") =>
           /\ rd.st = "Ok"
           /\ rd.v = arg
           /\ rd.p = Len(wr.out) + 1

C8_Witness ==
    /\ kind = "int_packed" /\ phase = "read"
    /\ arg = NegI32(0 .. 30)
    /\ rd.v = arg
    /\ tail # <<>>

\* C9: for max >= 2 and v < max, read_uint(max) applied to the bits of
\* write_uint(v, max) returns v and reads as many bits as were written; and
\* read_uint(max) on any bits returns a value below max when max >= 1.
C9_UintRoundTrip ==
    /\ (kind = "uint" /\ phase # "input") => wr.st = "Ok"
    /\ (kind = "uint" /\ phase = "read") =>
           /\ rd.st = "Ok"
           /\ rd.v = arg.value
           /\ rd.p = Len(wr.out) + 1
    /\ (kind = "read_uint_raw" /\ phase = "read" /\ arg.max # {} /\ rd.st = "Ok") =>
           Lt(rd.v, arg.max)

C9_Witness ==
    /\ kind = "uint" /\ phase = "read"
    /\ arg.max = Bit /\ arg.value = {U32Bits - 1}
    /\ Len(wr.out) = U32Bits
    /\ rd.v = arg.value
    /\ tail # <<>>

\* C10: in every frame write_compressed emits, the first i32 is the raw
\* payload length; if the deflated payload is not strictly smaller than the
\* payload, or compression is off, compressed_size is 0 and the raw payload
\* follows; and 0 <= compressed_size <= uncompressed_size.
C10_Framing ==
    (kind = "frame" /\ phase # "input") =>
        LET uncompressed_size == I32Of(SubSeq(wr.out, 1, 4))
            compressed_size == I32Of(SubSeq(wr.out, 5, 8))
        IN /\ Len(wr.out) >= 8
           /\ uncompressed_size = Len(arg.vec)
           /\ (~arg.should_compress \/ Len(Deflate(arg.vec)) >= Len(arg.vec)) =>
                  /\ compressed_size = 0
                  /\ SubSeq(wr.out, 9, Len(wr.out)) = arg.vec
           /\ 0 <= compressed_size /\ compressed_size <= uncompressed_size

\* a payload whose deflated form is exactly as long as the payload
C10_Witness ==
    /\ kind = "frame" /\ phase = "read"
    /\ arg.should_compress
    /\ arg.vec # <<>>
    /\ Len(Deflate(arg.vec)) = Len(arg.vec)
    /\ I32Of(SubSeq(wr.out, 5, 8)) = 0
    /\ rd.st = "Ok" /\ rd.bytes = arg.vec

-----------------------------------------------------------------------------
(* util/octree.rs: points and chunks.  A Point is <<x, y, z>> of i32.       *)

CHUNK_SIZE == 1024

\* the depth of the root node of a chunk (ChunkTree::insert)
CHUNK_DEPTH == 10

\* i32 `/`: division truncating toward zero, for a positive divisor
TruncDiv(a, b) == IF a >= 0 THEN a \div b ELSE -((-a) \div b)

\* the subtraction in div_floor leaves the i32 range
div_floor_overflows(a) == a < MinI32 + CHUNK_SIZE + 1

\* Point::chunk, its inner fn div_floor
div_floor(a) ==
    IF a >= 0 THEN TruncDiv(a, CHUNK_SIZE)
    ELSE TruncDiv(a - CHUNK_SIZE - 1, CHUNK_SIZE)

\* Point::chunk
chunk(p) == <<div_floor(p[1]), div_floor(p[2]), div_floor(p[3])>>

\* Point::chunk_midpoint
chunk_midpoint(p) ==
    <<p[1] * CHUNK_SIZE + CHUNK_SIZE \div 2,
      p[2] * CHUNK_SIZE + CHUNK_SIZE \div 2,
      p[3] * CHUNK_SIZE + CHUNK_SIZE \div 2>>

\* Point::shifted
shifted(p, x, y, z) == <<p[1] + x, p[2] + y, p[3] + z>>

-----------------------------------------------------------------------------
(* util/octree.rs: Node.  An Option<T> is NoValue or Some(v); a NodeValue   *)
(* is Value(option) or Children(eight nodes).                               *)

NoValue == [some |-> FALSE]
Some(v) == [some |-> TRUE, v |-> v]
Value(option) == [children |-> FALSE, v |-> option]
Children(nodes) == [children |-> TRUE, nodes |-> nodes]

\* Node::new
Node_new(point, depth, value) ==
    [point |-> point, depth |-> depth, value |-> Value(value),
     half |-> Pow2(Max(depth, 1) - 1)]

\* Node::is_inside
is_inside(node, min, max) ==
    \A a \in 1 .. 3 :
        /\ node.point[a] - node.half >= min[a]
        /\ node.point[a] + node.half <= max[a]

\* Node::is_outside
is_outside(node, min, max) ==
    \E a \in 1 .. 3 :
        \/ node.point[a] + node.half <= min[a]
        \/ node.point[a] - node.half >= max[a]

RECURSIVE Node_reduce(_)
RECURSIVE reduce_children(_, _)
RECURSIVE reduce_child(_, _, _)

\* a loop body that goes on when the child differs from the first child
reduce_child_any(nodes, i, r) ==
    IF r.value.children
    THEN [nodes |-> [nodes EXCEPT ![i] = r], all |-> FALSE]
    ELSE reduce_children([nodes EXCEPT ![i] = r], i + 1)

\* Node::reduce, the body of its loop for child i once the child is reduced
\* to r: the loop returns when the child kept children or differs from the
\* first child
reduce_child(nodes, i, r) ==
    IF r.value.children \/ (i # 1 /\ r.value # nodes[1].value)
    THEN [nodes |-> [nodes EXCEPT ![i] = r], all |-> FALSE]
    ELSE reduce_children([nodes EXCEPT ![i] = r], i + 1)

\* Node::reduce, its loop from child i on
reduce_children(nodes, i) ==
    IF i > 8 THEN [nodes |-> nodes, all |-> TRUE]
    ELSE reduce_child(nodes, i, Node_reduce(nodes[i]))

\* Node::reduce, what the node becomes after the loop
reduce_node(node, r) ==
    IF r.all THEN [node EXCEPT !.value = r.nodes[8].value]
    ELSE [node EXCEPT !.value = Children(r.nodes)]

\* Node::reduce
Node_reduce(node) ==
    IF ~node.value.children THEN node
    ELSE reduce_node(node, reduce_children(node.value.nodes, 1))

\* Node::insert, the sign of child k (1 .. 8) on axis a: children are pushed
\* in the order (-,-,-), (+,-,-), (-,+,-), (+,+,-), (-,-,+), ...
child_sign(k, a) == IF ((k - 1) \div Pow2(a - 1)) % 2 = 1 THEN 1 ELSE -1

\* Node::insert, the split of a leaf into eight children carrying its value
split(node) ==
    IF node.value.children THEN node
    ELSE [node EXCEPT !.value =
             Children([k \in 1 .. 8 |->
                 Node_new(shifted(node.point,
                                  child_sign(k, 1) * (node.half \div 2),
                                  child_sign(k, 2) * (node.half \div 2),
                                  child_sign(k, 3) * (node.half \div 2)),
                          node.depth - 1, node.value.v)])]

RECURSIVE Node_insert(_, _, _, _)

\* Node::insert, its loop over the children: each child that is not outside
\* the bounds takes the insert
insert_children(nodes, value, min, max) ==
    [k \in 1 .. 8 |->
        IF is_outside(nodes[k], min, max) THEN nodes[k]
        ELSE Node_insert(nodes[k], value, min, max)]

\* Node::insert
Node_insert(node, value, min, max) ==
    IF is_inside(node, min, max) THEN [node EXCEPT !.value = Value(Some(value))]
    ELSE IF node.depth = 0 THEN node
    ELSE [node EXCEPT !.value =
             Children(insert_children(split(node).value.nodes, value, min, max))]

RECURSIVE Node_search(_, _, _, _)

\* Node::search, its loop over the children: each child that is not outside
\* the bounds adds its values to the set
search_children(nodes, min, max, set) ==
    set \cup UNION {Node_search(nodes[k], min, max, {})
                    : k \in {j \in 1 .. 8 : ~is_outside(nodes[j], min, max)}}

\* Node::search
Node_search(node, min, max, set) ==
    IF node.value.children THEN search_children(node.value.nodes, min, max, set)
    ELSE IF node.value.v.some THEN set \cup {node.value.v.v}
    ELSE set

-----------------------------------------------------------------------------
(* util/octree.rs: ChunkTree.  chunks is a sequence of [node, pos]; an      *)
(* operation that can panic returns [st, ...] with st = "Ok" or "Panic".    *)

\* ChunkTree::chunks_from_bounds, the bounds of the piece in chunk c on axis
\* a: (min_x as f64 / CHUNK_SIZE as f64 + 1.0).floor() is exact for an i32
piece_min(min, min_chunk, c, a) ==
    IF c = min_chunk[a] THEN min[a] ELSE c * CHUNK_SIZE

piece_max(lo, max, a) == Min(((lo \div CHUNK_SIZE) + 1) * CHUNK_SIZE, max[a])

\* ChunkTree::chunks_from_bounds, the piece in chunk <<cx, cy, cz>>
piece(min, max, min_chunk, cx, cy, cz) ==
    [min |-> <<piece_min(min, min_chunk, cx, 1),
               piece_min(min, min_chunk, cy, 2),
               piece_min(min, min_chunk, cz, 3)>>,
     max |-> <<piece_max(piece_min(min, min_chunk, cx, 1), max, 1),
               piece_max(piece_min(min, min_chunk, cy, 2), max, 2),
               piece_max(piece_min(min, min_chunk, cz, 3), max, 3)>>]

\* ChunkTree::chunks_from_bounds, the three nested loops: x outermost
pieces(min, max, min_chunk, n) ==
    [j \in 1 .. n[1] * n[2] * n[3] |->
        piece(min, max, min_chunk,
              min_chunk[1] + ((j - 1) \div (n[2] * n[3])),
              min_chunk[2] + (((j - 1) \div n[3]) % n[2]),
              min_chunk[3] + ((j - 1) % n[3]))]

\* ChunkTree::chunks_from_bounds, given both chunks
chunks_between(min, max, min_chunk, max_chunk) ==
    IF \E a \in 1 .. 3 : min_chunk[a] > max_chunk[a]
    THEN [st |-> "Panic", v |-> <<>>]
    ELSE IF min_chunk # max_chunk
    THEN [st |-> "Ok",
          v |-> pieces(min, max, min_chunk,
                       [a \in 1 .. 3 |-> max_chunk[a] - min_chunk[a] + 1])]
    ELSE [st |-> "Ok", v |-> <<[min |-> min, max |-> max]>>]

\* ChunkTree::chunks_from_bounds
chunks_from_bounds(min, max) ==
    chunks_between(min, max, chunk(min), chunk(shifted(max, -1, -1, -1)))

\* ChunkTree::chunk_at and chunk_at_mut: the index of the first chunk at the
\* chunk of the point, 0 for None
RECURSIVE chunk_at(_, _, _)
chunk_at(chunks, point, k) ==
    IF k > Len(chunks) THEN 0
    ELSE IF chunks[k].pos = chunk(point) THEN k
    ELSE chunk_at(chunks, point, k + 1)

\* ChunkTree::insert, the body of its loop for one piece, i the chunk found
insert_piece(chunks, value, min, max, i) ==
    IF i > 0 THEN [chunks EXCEPT ![i].node = Node_insert(@, value, min, max)]
    ELSE Append(chunks,
             [node |-> Node_insert(Node_new(chunk_midpoint(chunk(min)), CHUNK_DEPTH, NoValue),
                              value, min, max),
              pos |-> chunk(min)])

RECURSIVE insert_pieces(_, _, _, _)
insert_pieces(chunks, value, ps, k) ==
    IF k > Len(ps) THEN chunks
    ELSE insert_pieces(
             insert_piece(chunks, value, ps[k].min, ps[k].max,
                          chunk_at(chunks, ps[k].min, 1)),
             value, ps, k + 1)

\* ChunkTree::insert, given the pieces
insert_bounds(chunks, value, bounds) ==
    IF bounds.st # "Ok" THEN [st |-> bounds.st, chunks |-> chunks]
    ELSE [st |-> "Ok", chunks |-> insert_pieces(chunks, value, bounds.v, 1)]

\* ChunkTree::insert
ChunkTree_insert(chunks, value, min_bound, max_bound) ==
    insert_bounds(chunks, value, chunks_from_bounds(min_bound, max_bound))

\* ChunkTree::search, the body of its loop for one piece
search_piece(chunks, min, max, i) ==
    IF i > 0 THEN Node_search(chunks[i].node, min, max, {}) ELSE {}

\* ChunkTree::search, given the pieces
search_bounds(chunks, bounds) ==
    IF bounds.st # "Ok" THEN [st |-> bounds.st, set |-> {}]
    ELSE [st |-> "Ok",
          set |-> UNION {search_piece(chunks, bounds.v[k].min, bounds.v[k].max,
                                      chunk_at(chunks, bounds.v[k].min, 1))
                         : k \in 1 .. Len(bounds.v)}]

\* ChunkTree::search
ChunkTree_search(chunks, min_bound, max_bound) ==
    search_bounds(chunks, chunks_from_bounds(min_bound, max_bound))

\* Point::octant: RIGHT = 1, BACK = 2, BOTTOM = 4
octant(self, point) ==
    (IF point[1] >= self[1] THEN 1 ELSE 0)
    + (IF point[2] >= self[2] THEN 2 ELSE 0)
    + (IF point[3] >= self[3] THEN 4 ELSE 0)

\* Node::get
RECURSIVE Node_get(_, _)
Node_get(node, point) ==
    IF ~node.value.children THEN node.value.v
    ELSE Node_get(node.value.nodes[octant(node.point, point) + 1], point)

\* ChunkTree::get, i the chunk chunk_at found
get_at(chunks, point, i) ==
    IF i = 0 THEN NoValue ELSE Node_get(chunks[i].node, point)

\* ChunkTree::get
ChunkTree_get(chunks, point) == get_at(chunks, point, chunk_at(chunks, point, 1))

\* ChunkTree::reduce
ChunkTree_reduce(chunks) ==
    [k \in 1 .. Len(chunks) |-> [chunks[k] EXCEPT !.node = Node_reduce(@)]]

-----------------------------------------------------------------------------
(* util/octree.rs: SaveOctree.  A brick of the octree is its position and   *)
(* the half-extent the asset table gives it on each axis.                   *)

\* the size of a brick on an axis, as the asset table reports it
axis_size(brick, axis) == brick.size[axis]

\* SaveOctree::brick_size
brick_size(brick) == <<axis_size(brick, 1), axis_size(brick, 2), axis_size(brick, 3)>>

\* SaveOctree::brick_bounds
brick_bounds(brick) ==
    [min |-> <<brick.position[1] - brick_size(brick)[1],
               brick.position[2] - brick_size(brick)[2],
               brick.position[3] - brick_size(brick)[3]>>,
     max |-> <<brick.position[1] + brick_size(brick)[1],
               brick.position[2] + brick_size(brick)[2],
               brick.position[3] + brick_size(brick)[3]>>]

\* SaveOctree::new, the body of its loop for brick i (from 0) with bounds b
new_brick(tree, i, b) ==
    IF tree.st # "Ok" \/ b.min = b.max THEN tree
    ELSE ChunkTree_insert(tree.chunks, i, b.min, b.max)

\* SaveOctree::new, its loop from brick k (from 1) on
RECURSIVE new_bricks(_, _, _)
new_bricks(tree, bricks, k) ==
    IF k > Len(bricks) THEN tree
    ELSE new_bricks(new_brick(tree, k - 1, brick_bounds(bricks[k])), bricks, k + 1)

\* SaveOctree::new
SaveOctree_new(bricks) == new_bricks([st |-> "Ok", chunks |-> <<>>], bricks, 1)

\* SaveOctree::bricks_in, as the set of the indices of the bricks returned
bricks_in(chunks, min, max) == ChunkTree_search(chunks, min, max)

-----------------------------------------------------------------------------
(* A caller of the octree: it takes the chunk of a point, or builds a       *)
(* SaveOctree over a few bricks, asks for the bricks in the bounds of one   *)
(* of them, and reduces the tree.                                           *)

MaxCoord == 2050
MaxOctreeBricks == 2

Coordinates == (-MaxCoord .. MaxCoord) \cup {MinI32, MinI32 + CHUNK_SIZE, -(MinI32 + 1)}

\* the coordinate as far above -1 as a is below 0, and the reverse
Mirror(a) == IF a < 0 THEN -(a + 1) ELSE (-a) - 1

OctreeBrick(x, y, z, sx, sy, sz) == [position |-> <<x, y, z>>, size |-> <<sx, sy, sz>>]

OctreeBricks ==
    {OctreeBrick(1, 1, 1, 1, 1, 1),         \* one cell of the finest grid
     OctreeBrick(1002, 1, 1, 1, 1, 1),      \* between two cells on x
     OctreeBrick(5, 5, 2, 5, 5, 2),         \* many cells
     OctreeBrick(-5, 1, 1, 5, 1, 1),        \* below zero
     OctreeBrick(-1019, 1, 1, 5, 1, 1),     \* from a chunk boundary below zero
     OctreeBrick(1024, 1, 1, 2, 1, 1),      \* across a chunk boundary
     OctreeBrick(0, 1, 1, 0, 1, 1),         \* flat on x
     OctreeBrick(7, 7, 7, 0, 0, 0)}         \* no extent

OctreeInputs ==
    UNION {[1 .. n -> OctreeBricks] : n \in 0 .. MaxOctreeBricks}

\* bounds with min < max on each axis, whose corners lie at, next to and
\* away from chunk boundaries
Corners == {-2048, -1025, -1024, -1023, -1, 0, 1, 1023, 1024, 1025, 2048}
BoundsInputs ==
    {[min |-> <<x[1], y[1], 0>>, max |-> <<x[2], y[2], 2>>]
        : x \in {c \in Corners \X Corners : c[1] < c[2]},
          y \in {<<0, 2>>, <<1000, 1030>>}}

OctreeInit ==
    /\ NoReader
    /\ phase = "input"
    /\ tail = <<>>
    /\ wr = "none" /\ rd = "none"
    /\ \/ kind = "chunk" /\ arg \in {<<a, Mirror(a), 0>> : a \in Coordinates}
       \/ kind = "octree" /\ arg \in OctreeInputs
       \/ kind = "bounds" /\ arg \in BoundsInputs

\* ChunkTree::chunks_from_bounds on the bounds drawn
ChunksFromBounds ==
    /\ kind = "bounds" /\ phase = "input"
    /\ phase' = "read"
    /\ rd' = chunks_from_bounds(arg.min, arg.max)
    /\ UNCHANGED <<kind, arg, tail, wr>>
    /\ UNCHANGED readerVars

\* Point::chunk on the point drawn
PointChunk ==
    /\ kind = "chunk" /\ phase = "input"
    /\ phase' = "read"
    /\ rd' = IF \E a \in 1 .. 3 : div_floor_overflows(arg[a])
             THEN [st |-> "Overflow"]
             ELSE [st |-> "Ok", v |-> chunk(arg)]
    /\ UNCHANGED <<kind, arg, tail, wr>>
    /\ UNCHANGED readerVars

\* SaveOctree::new over the bricks drawn
OctreeNew ==
    /\ kind = "octree" /\ phase = "input"
    /\ phase' = "built"
    /\ wr' = SaveOctree_new(arg)
    /\ UNCHANGED <<kind, arg, tail, rd>>
    /\ UNCHANGED readerVars

\* SaveOctree::bricks_in over the bounds of one of the bricks
OctreeBricksIn ==
    /\ kind = "octree" /\ phase \in {"built", "reduced"} /\ wr.st = "Ok"
    /\ \E i \in 1 .. Len(arg) :
          rd' = [brick |-> i - 1,
                 found |-> bricks_in(wr.chunks, brick_bounds(arg[i]).min,
                                     brick_bounds(arg[i]).max)]
    /\ UNCHANGED <<kind, arg, tail, phase, wr>>
    /\ UNCHANGED readerVars

\* ChunkTree::reduce on the tree
OctreeReduce ==
    /\ kind = "octree" /\ phase \in {"built", "reduced"} /\ wr.st = "Ok"
    /\ phase' = "reduced"
    /\ wr' = [wr EXCEPT !.chunks = ChunkTree_reduce(@)]
    /\ rd' = "none"
    /\ UNCHANGED <<kind, arg, tail>>
    /\ UNCHANGED readerVars

OctreeNext == PointChunk \/ ChunksFromBounds \/ OctreeNew \/ OctreeBricksIn \/ OctreeReduce

SpecOctree == OctreeInit /\ [][OctreeNext]_vars

-----------------------------------------------------------------------------
(* Claims about the octree (checked under SpecOctree) *)

\* the bounds of the brick that bricks_in was last asked about
AskedBounds == brick_bounds(arg[rd.brick + 1])

\* C18: after SaveOctree::new over any bricks, bricks_in over the bounds of a
\* brick whose bounds are not degenerate contains that brick, wherever the
\* brick lies, whatever its size and whatever other bricks were inserted
C18_Containment ==
    (kind = "octree" /\ phase = "built") =>
        /\ wr.st = "Ok"
        /\ (rd # "none" /\ AskedBounds.min # AskedBounds.max) =>
              /\ rd.found.st = "Ok"
              /\ rd.brick \in rd.found.set

\* some node of the tree has eight children that are all leaves carrying the
\* same value
RECURSIVE HasUniformChildren(_)
HasUniformChildren(node) ==
    /\ node.value.children
    /\ \/ \A k \in 1 .. 8 :
             /\ ~node.value.nodes[k].value.children
             /\ node.value.nodes[k].value = node.value.nodes[1].value
       \/ \E k \in 1 .. 8 : HasUniformChildren(node.value.nodes[k])

\* C19: after ChunkTree::reduce on a tree reached by any inserts, no node has
\* eight children that are all leaves carrying the same value, and a second
\* reduce changes nothing
C19_Reduced ==
    (kind = "octree" /\ phase = "reduced") =>
        /\ \A k \in 1 .. Len(wr.chunks) : ~HasUniformChildren(wr.chunks[k].node)
        /\ ChunkTree_reduce(wr.chunks) = wr.chunks

\* C20: Point::chunk returns on each axis the floor of the coordinate divided
\* by 1024, for every i32 coordinate, so that the point lies in the cube of
\* its chunk
C20_ChunkFloor ==
    (kind = "chunk" /\ phase = "read") =>
        /\ rd.st = "Ok"
        /\ \A a \in 1 .. 3 :
              /\ rd.v[a] = arg[a] \div CHUNK_SIZE
              /\ CHUNK_SIZE * rd.v[a] <= arg[a]
              /\ arg[a] - CHUNK_SIZE * rd.v[a] < CHUNK_SIZE

\* the chunks that [min, max] reaches on axis a, by the floor of the
\* division by CHUNK_SIZE
ChunkRange(min, max, a) == (min[a] \div CHUNK_SIZE) .. ((max[a] - 1) \div CHUNK_SIZE)

\* the intersection of [min, max] with the cube of the chunk c
Intersection(min, max, c) ==
    [min |-> [a \in 1 .. 3 |-> Max(min[a], c[a] * CHUNK_SIZE)],
     max |-> [a \in 1 .. 3 |-> Min(max[a], (c[a] + 1) * CHUNK_SIZE)]]

\* C25: for min < max on each axis, chunks_from_bounds(min, max) returns
\* the single pair (min, max) when both corners lie in one chunk, and
\* otherwise one sub-volume for each chunk of the inclusive range, the
\* intersection of [min, max] with the cube of that chunk, so that the
\* sub-volumes lie in their chunks, do not overlap and cover [min, max].
C25_ChunksFromBounds ==
    (kind = "bounds" /\ phase = "read") =>
        /\ rd.st = "Ok"
        /\ {rd.v[k] : k \in 1 .. Len(rd.v)}
           = {Intersection(arg.min, arg.max, <<cx, cy, cz>>)
                 : cx \in ChunkRange(arg.min, arg.max, 1),
                   cy \in ChunkRange(arg.min, arg.max, 2),
                   cz \in ChunkRange(arg.min, arg.max, 3)}
        /\ Len(rd.v) = Cardinality(ChunkRange(arg.min, arg.max, 1))
                       * Cardinality(ChunkRange(arg.min, arg.max, 2))
                       * Cardinality(ChunkRange(arg.min, arg.max, 3))

\* the points at and next to the corners of the bounds of the bricks
Probes(bricks) ==
    UNION {{<<x, y, z>> : x \in {b.min[1] - 1, b.min[1], b.max[1] - 1, b.max[1]},
                          y \in {b.min[2] - 1, b.min[2], b.max[2] - 1, b.max[2]},
                          z \in {b.min[3] - 1, b.min[3], b.max[3] - 1, b.max[3]}}
           : b \in {brick_bounds(bricks[k]) : k \in 1 .. Len(bricks)}}

\* C29: ChunkTree::reduce changes no point query: get(p) on the reduced tree
\* is get(p) on the tree that SaveOctree::new built, for every point p at
\* and next to the corners of the bricks
C29_ReducePreservesGet ==
    (kind = "octree" /\ phase = "reduced") =>
        \A built \in {SaveOctree_new(arg).chunks} :
           \A p \in Probes(arg) : ChunkTree_get(wr.chunks, p) = ChunkTree_get(built, p)

\* reduce changed the tree, and a point still holds its brick
C29_Witness ==
    /\ kind = "octree" /\ phase = "reduced"
    /\ wr.chunks # SaveOctree_new(arg).chunks
    /\ \E p \in Probes(arg) :
          /\ ChunkTree_get(wr.chunks, p).some
          /\ ChunkTree_get(wr.chunks, p) = ChunkTree_get(SaveOctree_new(arg).chunks, p)

\* C30: SaveOctree::new completes without panicking for every SaveData:
\* each brick whose min and max corner differ reaches chunks_from_bounds
\* with max_chunk >= min_chunk on every axis, also the bricks whose size is
\* zero on one or two axes only and the bricks at chunk boundaries and at
\* negative coordinates
C30_NoPanic ==
    (kind = "octree" /\ phase = "built") =>
        /\ wr.st = "Ok"
        /\ \A k \in 1 .. Len(arg) :
              brick_bounds(arg[k]).min # brick_bounds(arg[k]).max =>
                 chunks_from_bounds(brick_bounds(arg[k]).min, brick_bounds(arg[k]).max).st
                    = "Ok"

-----------------------------------------------------------------------------
(* Further claims about the reader (checked under Spec) *)

\* C21: a call for the next unconsumed section, in the order header1,
\* header2, preview, bricks, is never rejected with BadSectionReadOrder, and
\* neither is read_all on a new reader.  On a file older than version 8 the
\* preview counts as read from the start, read_preview and skip_preview
\* after header 2 return Ok without consuming a byte (read_preview gives
\* Preview::None), and read_bricks is accepted directly after header 2.
C21_InOrder ==
    /\ (call \in SectionCalls /\ Target(call) = section.was)
          => result # "BadSectionReadOrder"
    /\ (call \in {"read_all", "read_all_skip_preview"} /\ section.was = FirstSection)
          => result # "BadSectionReadOrder"
    /\ reader.version < 8 => reader.preview_read
    /\ (/\ call \in {"read_preview", "skip_preview"}
        /\ before.version < 8 /\ before.header2_read)
          => /\ result = "Ok"
             /\ reader = before
             /\ read_preview(before, file).v = [type |-> "None"]

\* read_bricks returned Ok directly after header 2 on a version 7 file, no
\* preview call having been made
C21_Witness ==
    /\ call = "read_bricks" /\ result = "Ok"
    /\ before.version = 7 /\ section.was = "bricks" /\ ~preview_done
    /\ file = LegacyFile

\* the reader left by a skip call is the reader left by the read call
SameReader(x, y) == x.st = "Ok" /\ y.st = "Ok" /\ x.r = y.r

\* C26: on a section that its read_* call accepts, skip_header1,
\* skip_header2 and skip_preview leave the byte source at the same offset
\* and the flags in the same state as read_header1, read_header2 and
\* read_preview, for raw and for compressed frames; so that
\* read_all_skip_preview returns the SaveData of read_all with the preview
\* None, and leaves the same reader.
C26_SkipAsRead ==
    /\ (call = "read_header1" /\ result = "Ok")
          => \A y \in {skip_header1(before, file)} : y.st = "Ok" /\ y.r = reader
    /\ call = "skip_header1"
          => \A x \in {read_header1(before, file)} :
                x.st = "Ok" => result = "Ok" /\ reader = x.r
    /\ (call = "read_header2" /\ result = "Ok")
          => \A y \in {skip_header2(before, file)} : y.st = "Ok" /\ y.r = reader
    /\ call = "skip_header2"
          => \A x \in {read_header2(before, file)} :
                x.st = "Ok" => result = "Ok" /\ reader = x.r
    /\ (call = "read_preview" /\ result = "Ok")
          => \A y \in {skip_preview(before, file)} : y.st = "Ok" /\ y.r = reader
    /\ call = "skip_preview"
          => \A x \in {read_preview(before, file)} :
                x.st = "Ok" => result = "Ok" /\ reader = x.r
    /\ call \in {"read_all", "read_all_skip_preview"}
          => \A x \in {read_all(before, file)} :
                x.st = "Ok" =>
                   \A y \in {read_all_skip_preview(before, file)} :
                      /\ SameReader(x, y)
                      /\ y.v = [x.v EXCEPT !.preview = [type |-> "None"]]
                      /\ result = "Ok" /\ reader = x.r

\* skip_header1 went over a compressed frame of a written save and left the
\* reader read_header1 leaves
C26_Witness ==
    /\ call = "skip_header1" /\ result = "Ok"
    /\ read_i32(file, before.pos + 4).v > 0
    /\ read_header1(before, file).st = "Ok"
    /\ reader = read_header1(before, file).r
    /\ reader.pos = before.pos + 8 + read_i32(file, before.pos + 4).v

\* the bricks and components x hold for each other what read_bricks
\* promises
Attached(x) ==
    \A name \in DOMAIN x.components :
       \A k \in 1 .. Len(x.components[name].brick_indices) :
          \A i \in {as_usize(x.components[name].brick_indices[k])} :
             /\ i < Len(x.bricks)
             /\ name \in DOMAIN x.bricks[i + 1].components
             /\ DOMAIN x.bricks[i + 1].components[name]
                   = DOMAIN x.components[name].properties

\* C27: whenever read_bricks returns Ok, every index in every returned
\* Component.brick_indices is below the number of returned bricks, and that
\* brick's components map holds under the component's name a property
\* table whose keys are the keys of Component.properties; read_bricks
\* never indexes the brick vector out of range (it does not panic), also
\* for files that decode to no brick or to one.
C27_ComponentIndices ==
    call = "read_bricks" =>
        /\ result # "Panic"
        /\ result = "Ok" =>
              \A x \in {read_bricks(before, file, held.header1, held.header2)} :
                 Attached(x.v)

-----------------------------------------------------------------------------
(* Further claims about writing a save and reading it back (checked under  *)
(* SpecRoundTrip)                                                          *)

\* the fields of a brick that are packed with a width, and the owner index
\* that follows them in the stream
PackedFields(b) ==
    [asset_name_index |-> b.asset_name_index,
     material_index |-> b.material_index,
     physical_index |-> b.physical_index,
     material_intensity |-> b.material_intensity,
     direction |-> b.direction, rotation |-> b.rotation,
     unique |-> b.color.unique,
     index |-> IF b.color.unique THEN {} ELSE b.color.index,
     owner_index |-> b.owner_index]

\* C22: for every brick the writer emits and every palette size, a palette
\* of 0 or 1 colors included, the version 10 reader decodes each packed
\* field of the brick with the width the writer used, so that the bricks
\* read back have the written asset, material, physical, intensity,
\* orientation, color index and owner index and no brick is shifted.  The
\* saves are those that differ from the default save in their palette and
\* bricks only.
C22_SameWidths ==
    (/\ kind = "save" /\ phase = "read_all"
     /\ arg \in BrickSaves /\ Invariants(arg)) =>
        /\ rd.st = "Ok"
        /\ Len(rd.v.bricks) = Len(arg.bricks)
        /\ \A i \in 1 .. Len(arg.bricks) :
              PackedFields(rd.v.bricks[i]) = PackedFields(arg.bricks[i])

\* the values SaveWriter::write hands to write_uint for a brick, each with
\* its max
PackedWrites(b, data) ==
    {<<b.asset_name_index, U(Max(Len(data.header2.brick_assets), 2))>>,
     <<U(b.direction * 4 + b.rotation), U(24)>>,
     <<b.material_index, U(Max(Len(data.header2.materials), 2))>>,
     <<b.physical_index, U(Max(Len(data.header2.physical_materials), 2))>>,
     <<b.material_intensity, U(11)>>}
    \cup (IF b.color.unique THEN {}
          ELSE {<<b.color.index, U(Max(Len(data.header2.colors), 2))>>})

\* some brick of the save has a packed field that is not below its max
OutOfRange(s) ==
    \E i \in 1 .. Len(s.bricks) :
       \E w \in PackedWrites(s.bricks[i], s) : ~Lt(w[1], w[2])

\* C24: write_uint(value, max) with max >= 2 and value >= max returns
\* InvalidInput and emits no bit, and SaveWriter::write fails whenever the
\* asset, material, physical, intensity, orientation or color index of a
\* brick is not below the max of its width.
C24_OutOfRange ==
    (kind = "save" /\ phase = "written") =>
        /\ \A i \in 1 .. Len(arg.bricks) :
              \A w \in PackedWrites(arg.bricks[i], arg) :
                 ~Lt(w[1], w[2]) => write_uint(w[1], w[2]) = Fail("InvalidInput")
        /\ OutOfRange(arg) => wr.st = "IoError"

\* the write of a save whose second brick has the material intensity 11
\* failed
C24_Witness ==
    /\ kind = "save" /\ phase = "written"
    /\ Len(arg.bricks) = 2
    /\ arg.bricks[2].material_intensity = U(11)
    /\ ~OutOfRange([arg EXCEPT !.bricks = <<arg.bricks[1]>>])
    /\ wr.st = "IoError"

\* the components the writer emitted into the payload buf: for each, its
\* name from the byte stream and, from the bits that follow, its version,
\* brick_indices, properties and the values of each listed brick (laid on
\* the bricks of blank); the next component starts at the next whole byte
RECURSIVE EmittedComponents(_, _, _, _)
RECURSIVE EmittedNamed(_, _, _, _)
RECURSIVE EmittedRest(_, _, _, _, _)
EmittedRest(buf, name, d, n, blank) ==
    <<[name |-> name.v, st |-> d.st, v |-> d.v]>>
    \o (IF d.st # "Ok" THEN <<>>
        ELSE EmittedComponents(buf, name.p + ((d.p + 6) \div 8), n - 1, blank))
EmittedNamed(buf, name, n, blank) ==
    EmittedRest(buf, name,
                ReadComponentBitFields(write_bytes(SubSeq(buf, name.p, Len(buf))),
                                       name.v, blank, 1, Start(1)),
                n, blank)
EmittedComponents(buf, p, n, blank) ==
    IF n <= 0 THEN <<>> ELSE EmittedNamed(buf, ReadExt_read_string(buf, p), n, blank)

\* the components section of the written file out
ComponentsFrame(out) ==
    read_compressed(out,
        skip_compressed(out,
            skip_preview(skip_header2(skip_header1(SaveReader_new(out).r, out).r, out).r,
                         out).r.pos).p)

Emitted(payload, n) ==
    EmittedComponents(payload, 5, read_i32(payload, 1).v,
                      [i \in 1 .. n |-> [components |-> [x \in {} |-> {}]]])

\* the indices of the bricks that carry name, ascending
Carriers(bricks, name) ==
    CHOOSE f \in Orders({i - 1 : i \in {j \in 1 .. Len(bricks) :
                                           name \in DOMAIN bricks[j].components}}) :
        \A i, j \in DOMAIN f : i < j => f[i] < f[j]

\* the emitted component e is the component of data under its name
EmittedAs(e, data) ==
    /\ e.st = "Ok"
    /\ e.name \in DOMAIN data.components
    /\ [k \in DOMAIN e.v.brick_indices |-> as_usize(e.v.brick_indices[k])]
          = Carriers(data.bricks, e.name)
    /\ Len(e.v.properties) = Cardinality(DOMAIN data.components[e.name].properties)
    /\ \A q \in DOMAIN e.v.properties :
          /\ e.v.properties[q][1] \in DOMAIN data.components[e.name].properties
          /\ e.v.properties[q][2] = data.components[e.name].properties[e.v.properties[q][1]]
    /\ \A i \in DOMAIN data.bricks :
          e.name \in DOMAIN data.bricks[i].components =>
             e.v.bricks[i].components[e.name]
                = [y \in DOMAIN data.components[e.name].properties |->
                      data.bricks[i].components[e.name][y]]

\* C28: for each component declared in SaveData.components, the
\* brick_indices array the writer emits is the ascending list of the indices
\* of the bricks whose components map has the component's name, whatever
\* the stored Component.brick_indices hold, and the property values follow
\* brick by brick in that order, the properties in the order of the emitted
\* property list.  The emitted section is decoded field by field from the
\* bytes of a write that returned Ok.
C28_EmittedIndices ==
    (kind = "save" /\ phase = "written" /\ wr.st = "Ok" /\ DOMAIN arg.components # {}) =>
        \A e \in {Emitted(ComponentsFrame(wr.out).bytes, Len(arg.bricks))} :
           /\ Len(e) = Cardinality(DOMAIN arg.components)
           /\ {e[k].name : k \in DOMAIN e} = DOMAIN arg.components
           /\ \A k \in DOMAIN e : EmittedAs(e[k], arg)

\* a write of two components, the first carried by both bricks and stored
\* with the indices 0, 0; the second emitted first
C28_Witness ==
    /\ kind = "save" /\ phase = "written" /\ wr.st = "Ok"
    /\ arg = IndexSave(<<{0}, {}>>)
    /\ Emitted(ComponentsFrame(wr.out).bytes, 2)[1].name = Str_Motor
    /\ Emitted(ComponentsFrame(wr.out).bytes, 2)[2].v.brick_indices = <<{}, {0}>>

====
